---- MODULE Spec2Model ----
(***************************************************************************)
(* CoreSight assignment and triage pipeline.                               *)
(*                                                                         *)
(* The model covers the three issue-intake entry points                    *)
(*   - IssueService.create_issue          (services/issue_service.py)      *)
(*   - handle_issue_created               (services/jira_handlers.py)      *)
(*   - create_issue_with_ai               (main.py, POST /api/issues)      *)
(* the AI helpers they call (ai/*.py, utils/vector_search.py), the         *)
(* requisition store (services/job_service.py) and the operator-facing     *)
(* requisition endpoints (approve, update, post, public careers listing).  *)
(* Spec is the behaviour of these.                                         *)
(*                                                                         *)
(* CommitSpec is the commit pipeline, CommitService.process_commit         *)
(* (services/commit_service.py) and process_commit_with_ai (main.py), with *)
(* two runs that may interleave.  HelperSpec is the AI helpers called      *)
(* directly, one call per step: the duplicate check, the profile-update    *)
(* check, the candidate ranking, the cosine similarity and the embedding.  *)
(* ConcurrentSpec is two IssueService.create_issue runs that interleave,   *)
(* StoreFailSpec the issue runs over a store whose operations may fail,    *)
(* PipelinesSpec the issue and commit pipelines over the same users, and   *)
(* SearchSpec the similar-issue search over stores of several issues.      *)
(*                                                                         *)
(* The entry points are coroutines.  One step of a run is the awaited     *)
(* call it is suspended on together with the synchronous code that        *)
(* follows it up to the next await.  The oracle is external: each call    *)
(* draws its response nondeterministically.                               *)
(*                                                                         *)
(* Documents carry the fields the modelled operations read back or decide *)
(* on; the collections projects and sprints are left out.                 *)
(*                                                                         *)
(* Numbers: similarities are cosines scaled by 100 (integers), match       *)
(* scores are scaled by 1000.  Vectors are short integer vectors whose     *)
(* norms are integers; a cosine is the integer quotient.                   *)
(***************************************************************************)
EXTENDS Integers, Sequences, FiniteSets, TLC

(***************************************************************************)
(* Bounds                                                                  *)
(***************************************************************************)
\* number of requests (pipeline runs) a behaviour may start
MaxRequests == 1
\* largest number of user documents in the store
MaxUsers == 2
\* largest number of issue documents the store holds before the requests
MaxPriorIssues == 1
\* number of operator requests on requisitions a behaviour may make
MaxOperatorActions == 3
\* number of commits a behaviour may process
MaxCommits == 2
\* largest number of issue documents in the store a similar-issue search
\* is called on
MaxStored == 5
\* number of IssueService.create_issue requests a behaviour of the
\* concurrent specification may start
MaxConcurrent == 2

\* the slots a request can occupy, and the one used when requests are
\* served one after the other
RunIds == {1, 2}
Serial == {1}

(***************************************************************************)
(* Values                                                                  *)
(***************************************************************************)
\* Python None / JSON null
Null == "null"
\* a key that is absent from a decoded JSON object
Missing == "<missing>"
\* no document / no id
NoId == 0

\* str(ObjectId): ids are integers in the model, their string form is what
\* the oracle sees in a prompt and echoes back
StrOf(id) == ToString(id)

\* ObjectId(s): the id whose string form is s, for ids the store may hold;
\* the set is the universe of well-formed id strings
IdUniverse == 1..(MaxUsers + MaxPriorIssues + 3 * MaxRequests + 1)
ObjectIdOf(s) == CHOOSE i \in IdUniverse : StrOf(i) = s

\* JSON scalars are kept as strings ("true", "false", "null", "0.9", ids);
\* Python truthiness of such a value as tested by `if x` / `x and y`
Truthy(v) == v \notin {Null, Missing, "", "false"}

\* dict.get(key, default) on a decoded object: v is the value under the key
Get(v, default) == IF v = Missing THEN default ELSE v

Range(s) == {s[i] : i \in 1..Len(s)}

\* an absent key whose value would be a list, and dict.get(key, default) on it
MissingList == <<Missing>>
GetList(v, default) == IF v = MissingList THEN default ELSE v

\* s[:n]
Take(s, n) == IF Len(s) <= n THEN s ELSE SubSeq(s, 1, n)

(***************************************************************************)
(* Oracle responses                                                        *)
(*                                                                         *)
(* A response either raises (network error, timeout, client is None) or    *)
(* returns text.  Of the text only what the callers look at is kept:       *)
(* whether the opening / closing delimiter occurs, whether the substring   *)
(* between the first opening and the last closing delimiter decodes, and   *)
(* the decoded value.                                                      *)
(***************************************************************************)
Response(payloads) ==
    { [raises |-> TRUE,  open |-> FALSE, close |-> FALSE, decodes |-> FALSE, value |-> Null] }
    \cup
    { [raises |-> FALSE, open |-> o, close |-> c, decodes |-> FALSE, value |-> Null]
        : o \in BOOLEAN, c \in BOOLEAN }
    \cup
    { [raises |-> FALSE, open |-> TRUE, close |-> TRUE, decodes |-> TRUE, value |-> p]
        : p \in payloads }

\* content.find(open) : -1 when absent
FindStart(resp) == IF resp.open THEN 0 ELSE -1
\* content.rfind(close) + 1 : 0 when absent
FindEnd(resp) == IF resp.close THEN 1 ELSE 0

\* The common lenient parse:
\*   start = content.find('{'); end = content.rfind('}') + 1
\*   if start != -1 and end != 0: return json.loads(content[start:end])
\* inside try/except.  Result tag: "ok" (decoded), "nojson" (no delimiters),
\* "error" (the call or json.loads raised).
LenientParse(resp) ==
    IF resp.raises THEN [tag |-> "error", value |-> Null]
    ELSE IF FindStart(resp) # -1 /\ FindEnd(resp) # 0
         THEN IF resp.decodes THEN [tag |-> "ok", value |-> resp.value]
              ELSE [tag |-> "error", value |-> Null]
         ELSE [tag |-> "nojson", value |-> Null]

(***************************************************************************)
(* Texts, embeddings and similarity                                        *)
(*                                                                         *)
(* A text is a sequence of words; the blank text is the empty sequence.    *)
(* ", ".join(skills) is the sequence of the skills.                        *)
(***************************************************************************)
\* [0.0] * 768 : the zero vector of nominal length (length 2 stands for 768)
ZeroVector == <<0, 0>>
\* generate_embedding returns None when the oracle's content decodes to JSON
\* that is not a list; None and [] are both falsy and are both kept as <<>>
NoVector == <<>>

\* vectors the oracle may return as a JSON list
OracleVectors == {<<1, 0>>, <<0, 1>>}

\* sha256-derived surrogate: a deterministic function of the text with
\* components in [0, 1] (scaled), never the zero vector
HashEmbedding(text) == IF Len(text) % 2 = 1 THEN <<3, 4>> ELSE <<4, 3>>

\* responses of the chat client to an embedding request
EmbResponses ==
    { [kind |-> "raise", vec |-> NoVector],
      [kind |-> "text", vec |-> NoVector] }
    \cup { [kind |-> "list", vec |-> v] : v \in OracleVectors }

\* not text or not text.strip(): the text holds nothing but whitespace
Blank(text) == \A k \in 1..Len(text) : text[k] = " "

generate_embedding(text, resp) ==
    IF Blank(text) THEN ZeroVector
    ELSE CASE resp.kind = "raise"  -> ZeroVector
           [] resp.kind = "list"   -> resp.vec
           [] resp.kind = "text"   -> HashEmbedding(text)
           [] resp.kind = "scalar" -> NoVector

RECURSIVE Dot(_, _)
Dot(a, b) == IF a = <<>> THEN 0 ELSE Head(a) * Head(b) + Dot(Tail(a), Tail(b))

\* np.linalg.norm; the model's vectors have integer norms
Norm(a) == CHOOSE k \in 0..Dot(a, a) : k * k = Dot(a, a)

\* how a call ends: it returns a value or an exception leaves it
Returned(v) == [raised |-> FALSE, value |-> v]
Raises == [raised |-> TRUE, value |-> 0]

\* np.dot of two one-dimensional arrays: shapes that are not aligned raise
\* ValueError
np_dot(arr1, arr2) ==
    IF Len(arr1) # Len(arr2) THEN Raises ELSE Returned(Dot(arr1, arr2))

\* variant: no except clause around the computation
calculate_cosine_similarity_unguarded(vec1, vec2) ==
    IF vec1 = <<>> \/ vec2 = <<>> THEN Returned(0)
    ELSE LET dot_product == np_dot(vec1, vec2)
         IN IF dot_product.raised THEN Raises
            ELSE IF Norm(vec1) = 0 \/ Norm(vec2) = 0 THEN Returned(0)
            ELSE Returned((100 * dot_product.value) \div (Norm(vec1) * Norm(vec2)))

\* calculate_cosine_similarity (ai/embeddings.py) and its copy
\* cosine_similarity (utils/vector_search.py), as the outcome of the call;
\* the value is scaled by 100.  The except clause turns the ValueError of
\* np.dot into 0.0.
calculate_cosine_similarity(vec1, vec2) ==
    IF vec1 = <<>> \/ vec2 = <<>> THEN Returned(0)
    ELSE LET dot_product == np_dot(vec1, vec2)
         IN IF dot_product.raised THEN Returned(0)
            ELSE IF Norm(vec1) = 0 \/ Norm(vec2) = 0 THEN Returned(0)
            ELSE Returned((100 * dot_product.value) \div (Norm(vec1) * Norm(vec2)))

\* the value a caller of the pipeline gets
cosine_similarity(vec1, vec2) == calculate_cosine_similarity(vec1, vec2).value

RECURSIVE InsertDesc(_, _)
\* insert x after every element whose score is >= x.score
InsertDesc(sorted, x) ==
    IF sorted = <<>> THEN <<x>>
    ELSE IF Head(sorted).score >= x.score
         THEN <<Head(sorted)>> \o InsertDesc(Tail(sorted), x)
         ELSE <<x>> \o sorted

RECURSIVE SortDesc(_)
\* list.sort(key=score, reverse=True): descending and stable
SortDesc(s) ==
    IF s = <<>> THEN <<>>
    ELSE InsertDesc(SortDesc(SubSeq(s, 1, Len(s) - 1)), s[Len(s)])

RECURSIVE SetToSeq(_)
\* documents of a collection in natural (insertion = id) order
SetToSeq(S) ==
    IF S = {} THEN <<>>
    ELSE LET m == CHOOSE x \in S : \A y \in S : x <= y
         IN <<m>> \o SetToSeq(S \ {m})

(***************************************************************************)
(* Skill extraction (ai/skills.py)                                         *)
(***************************************************************************)
\* str(skill).strip()
Strip(w) == IF w = " Python" THEN "Python" ELSE w

\* JSON arrays the oracle may return between '[' and ']'
SkillArrays == { <<>>, <<"">>, <<" Python", "Rust">> }

\* the static keyword table, in table order (three of its twenty rows)
SkillKeywords == << [keyword |-> "python", skill |-> "Python"],
                    [keyword |-> "docker", skill |-> "Docker"],
                    [keyword |-> "api",    skill |-> "API Development"] >>

RECURSIVE DetectedSkills(_, _)
DetectedSkills(table, text) ==
    IF table = <<>> THEN <<>>
    ELSE (IF Head(table).keyword \in Range(text) THEN <<Head(table).skill>> ELSE <<>>)
         \o DetectedSkills(Tail(table), text)

extract_skills_fallback(task_title, task_description) ==
    LET detected == DetectedSkills(SkillKeywords, task_title \o task_description)
    IN IF detected # <<>> THEN Take(detected, 7)
       ELSE <<"General Software Development">>

RECURSIVE TruthyStripped(_)
\* [str(skill).strip() for skill in skills if skill]
TruthyStripped(skills) ==
    IF skills = <<>> THEN <<>>
    ELSE (IF Truthy(Head(skills)) THEN <<Strip(Head(skills))>> ELSE <<>>)
         \o TruthyStripped(Tail(skills))

NoDescription == <<"no", "description", "provided">>

extract_skills_from_task(task_title, task_description, resp) ==
    LET description == IF task_description # <<>> THEN task_description
                       ELSE NoDescription
        parsed == LenientParse(resp)
    IN IF parsed.tag = "ok" /\ Len(parsed.value) > 0
       THEN TruthyStripped(parsed.value)
       ELSE extract_skills_fallback(task_title, description)

(***************************************************************************)
(* Duplicate check (ai/analysis.py)                                        *)
(***************************************************************************)
\* JSON objects the oracle may return for a duplicate check over the priors
\* `similar` (a sequence of issue ids): not a duplicate; a duplicate of the
\* first prior, with or without priority drift and new skills; a duplicate
\* without a parent; an object without the expected keys
DuplicatePayloads(similar) ==
    { [is_duplicate |-> "false", parent_task_id |-> Null, confidence |-> "0.9",
       reasoning |-> "r", priority_change |-> Null, new_skills_required |-> <<>>],
      [is_duplicate |-> "true", parent_task_id |-> Null, confidence |-> "0.9",
       reasoning |-> "r", priority_change |-> Null, new_skills_required |-> <<>>],
      [is_duplicate |-> Missing, parent_task_id |-> Missing, confidence |-> Missing,
       reasoning |-> Missing, priority_change |-> Missing, new_skills_required |-> <<>>] }
    \cup
    { [is_duplicate |-> "true", parent_task_id |-> StrOf(Head(similar)),
       confidence |-> "0.9", reasoning |-> "r",
       priority_change |-> d[1], new_skills_required |-> d[2]]
        : d \in IF similar = <<>> THEN {}
                ELSE { <<Null, <<>> >>, <<"increased", <<"Redis">> >> } }

\* the result when similar_issues is empty
NoSimilarResult ==
    [is_duplicate |-> "false", parent_task_id |-> Null, confidence |-> "1.0",
     reasoning |-> "No similar issues found", priority_change |-> Null,
     new_skills_required |-> <<>>]

\* variant: without an answer the issue is taken for a duplicate of the
\* first stored issue
DuplicateFallbackAssumed ==
    [is_duplicate |-> "true", parent_task_id |-> StrOf(MaxUsers + 1),
     confidence |-> "0.5",
     reasoning |-> "LLM analysis unavailable, defaulting to new issue",
     priority_change |-> Null, new_skills_required |-> <<>>]

\* the fallback when the oracle fails or returns no JSON object
DuplicateFallback ==
    [is_duplicate |-> "false", parent_task_id |-> Null, confidence |-> "0.5",
     reasoning |-> "LLM analysis unavailable, defaulting to new issue",
     priority_change |-> Null, new_skills_required |-> <<>>]

\* variant: the oracle is consulted whatever the list of priors holds
check_issue_duplicate_unguarded(similar_issues, resp) ==
    LET parsed == LenientParse(resp)
    IN IF parsed.tag = "ok" THEN parsed.value ELSE DuplicateFallback

check_issue_duplicate_with_llm(similar_issues, resp) ==
    IF similar_issues = <<>> THEN NoSimilarResult
    ELSE LET parsed == LenientParse(resp)
         IN IF parsed.tag = "ok" THEN parsed.value ELSE DuplicateFallback

\* how a call of check_issue_duplicate_with_llm came to its result: without
\* the oracle ("skipped"), from the decoded object ("decoded"), from the
\* fallback ("fallback")
DuplicateCheckPath(similar_issues, resp) ==
    IF similar_issues = <<>> THEN "skipped"
    ELSE IF LenientParse(resp).tag = "ok" THEN "decoded" ELSE "fallback"

\* requests check_issue_duplicate_with_llm sends to the oracle: the return
\* for an empty list (lines 20-28) precedes the one request (line 66)
DuplicateOracleCalls(similar_issues) ==
    IF similar_issues = <<>> THEN 0 ELSE 1

(***************************************************************************)
(* Profile evolution (ai/analysis.py)                                      *)
(***************************************************************************)
RECURSIVE NotIn(_, _)
\* [skill for skill in new_commit_skills if skill not in current_skills]
NotIn(new_commit_skills, current_skills) ==
    IF new_commit_skills = <<>> THEN <<>>
    ELSE (IF Head(new_commit_skills) \in Range(current_skills) THEN <<>>
          ELSE <<Head(new_commit_skills)>>)
         \o NotIn(Tail(new_commit_skills), current_skills)

\* JSON objects the oracle may return for a profile check: no update, an
\* update with one skill (with or without a rewritten text), an update
\* that repeats a skill the profile holds, an update without skills, an
\* object without the expected keys
ProfilePayloads ==
    { [needs_update |-> "false", new_skills_to_add |-> <<>>,
       updated_profile_text |-> Null, reasoning |-> "r"],
      [needs_update |-> "true", new_skills_to_add |-> <<"Redis">>,
       updated_profile_text |-> Null, reasoning |-> "r"],
      [needs_update |-> "true", new_skills_to_add |-> <<"Redis">>,
       updated_profile_text |-> "rewritten", reasoning |-> "r"],
      [needs_update |-> "true", new_skills_to_add |-> <<"Python", "Go">>,
       updated_profile_text |-> Null, reasoning |-> "r"],
      [needs_update |-> "true", new_skills_to_add |-> MissingList,
       updated_profile_text |-> Missing, reasoning |-> "r"],
      [needs_update |-> Missing, new_skills_to_add |-> MissingList,
       updated_profile_text |-> Missing, reasoning |-> Missing] }

\* variant: the fallback reports every skill of the commit as new
check_profile_update_unfiltered(current_skills, new_commit_skills, resp) ==
    LET parsed == LenientParse(resp)
    IN IF parsed.tag = "ok" THEN parsed.value
       ELSE [needs_update |-> IF Len(new_commit_skills) > 0 THEN "true" ELSE "false",
             new_skills_to_add |-> new_commit_skills,
             updated_profile_text |-> Null,
             reasoning |-> "fallback"]

check_profile_update_needed(current_skills, new_commit_skills, resp) ==
    LET parsed == LenientParse(resp)
        new_skills == NotIn(new_commit_skills, current_skills)
    IN IF parsed.tag = "ok" THEN parsed.value
       ELSE [needs_update |-> IF Len(new_skills) > 0 THEN "true" ELSE "false",
             new_skills_to_add |-> new_skills,
             updated_profile_text |-> Null,
             reasoning |-> "fallback"]

(***************************************************************************)
(* Similar-issue search (utils/vector_search.py)                           *)
(***************************************************************************)
RECURSIVE ScoreIssues(_, _, _, _)
\* the loop of search_similar_issues over the fetched documents
ScoreIssues(ids, docs, query_embedding, min_similarity) ==
    IF ids = <<>> THEN <<>>
    ELSE LET embedding == docs[Head(ids)].description_embedding
             similarity == cosine_similarity(query_embedding, embedding)
             rest == ScoreIssues(Tail(ids), docs, query_embedding, min_similarity)
         IN IF embedding = <<>> THEN rest
            ELSE IF similarity >= min_similarity
                 THEN <<[id |-> Head(ids), score |-> similarity]>> \o rest
                 ELSE rest

Ids(scored) == [i \in 1..Len(scored) |-> scored[i].id]

\* ids of the returned documents, best first
search_similar_issues(docs, query_embedding, top_k, min_similarity) ==
    Ids(Take(SortDesc(ScoreIssues(SetToSeq(DOMAIN docs), docs,
                                  query_embedding, min_similarity)), top_k))

\* variant: every issue the search returned is put into the prompt
PromptPriorsAll(similar_issues) == similar_issues

\* check_issue_duplicate_with_llm (ai/analysis.py lines 31-38): the issues
\* formatted into the oracle's prompt are similar_issues[:3]
PromptPriors(similar_issues) == Take(similar_issues, 3)

(***************************************************************************)
(* Candidate ranking (ai/matching.py, utils/vector_search.py)              *)
(***************************************************************************)
RECURSIVE ScoreUsers(_, _, _, _, _)
\* the loop of find_best_matching_users; embs[k] is the oracle's response to
\* the embedding request for the k-th user's skill text
ScoreUsers(ids, docs, task_skill_embedding, task_embeddings, embs) ==
    IF ids = <<>> THEN <<>>
    ELSE LET user == docs[Head(ids)]
             user_skill_embedding == generate_embedding(user.skills, Head(embs))
             skill_similarity ==
                 cosine_similarity(task_skill_embedding, user_skill_embedding)
             profile_similarity ==
                 cosine_similarity(task_embeddings, user.work_profile_embeddings)
             combined_score == skill_similarity * 7 + profile_similarity * 3
         IN <<[id |-> Head(ids), score |-> combined_score]>>
            \o ScoreUsers(Tail(ids), docs, task_skill_embedding, task_embeddings,
                          Tail(embs))

\* embs[1] answers the request for the task's skill text, embs[k+1] the one
\* for the k-th user's
find_best_matching_users(task_skills, task_embeddings, docs, top_n, embs) ==
    IF DOMAIN docs = {} THEN <<>>
    ELSE Take(SortDesc(ScoreUsers(SetToSeq(DOMAIN docs), docs,
                                  generate_embedding(task_skills, Head(embs)),
                                  task_embeddings, Tail(embs))), top_n)

RECURSIVE ScoreUsersBySkills(_, _, _, _, _)
\* the loop of find_matching_users_by_skills; scores scaled by 1000
ScoreUsersBySkills(ids, docs, required_skills, skill_embedding, min_similarity) ==
    IF ids = <<>> THEN <<>>
    ELSE LET user == docs[Head(ids)]
             skill_overlap ==
                 Cardinality(Range(required_skills) \cap Range(user.skills))
             \* 0.6 * skill_overlap_ratio, scaled by 1000
             weighted_overlap ==
                 IF required_skills # <<>>
                 THEN (600 * skill_overlap) \div Len(required_skills) ELSE 0
             embedding_similarity ==
                 IF user.work_profile_embeddings # <<>>
                 THEN cosine_similarity(skill_embedding, user.work_profile_embeddings)
                 ELSE 0
             combined_score == weighted_overlap + embedding_similarity * 4
             rest == ScoreUsersBySkills(Tail(ids), docs, required_skills,
                                        skill_embedding, min_similarity)
         IN IF combined_score >= min_similarity
            THEN <<[id |-> Head(ids), score |-> combined_score]>> \o rest
            ELSE rest

find_matching_users_by_skills(docs, required_skills, skill_embedding, top_k, min_similarity) ==
    IF DOMAIN docs = {} THEN <<>>
    ELSE Take(SortDesc(ScoreUsersBySkills(SetToSeq(DOMAIN docs), docs,
                                          required_skills, skill_embedding,
                                          min_similarity)), top_k)

(***************************************************************************)
(* Candidate validation (ai/validation.py)                                 *)
(***************************************************************************)
\* JSON objects the oracle may return for the candidates (a sequence of
\* user ids, best first): no selection, a selection of a listed candidate, a selection of an id that is not in the list, no such key
EvaluationPayloads(candidates) ==
    { [selected_user_id |-> sel, reasoning |-> "r"]
        : sel \in {Null, Missing, "no-such-user"}
                  \cup {StrOf(candidates[i]) : i \in 1..Len(candidates)} }

\* variant: only the best-ranked candidate is put into the prompt
PromptTopCandidate(candidates) == Take(candidates, 1)

\* evaluate_candidates_batch (ai/validation.py lines 104-113): the prompt
\* lists every candidate it was given
PromptCandidates(candidates) == candidates

evaluate_candidates_batch(candidates, resp) ==
    IF candidates = <<>>
    THEN [selected_user_id |-> Null, reasoning |-> "No candidates provided"]
    ELSE LET parsed == LenientParse(resp)
         IN CASE parsed.tag = "ok"     -> parsed.value
              [] parsed.tag = "nojson" ->
                    [selected_user_id |-> Null,
                     reasoning |-> "Failed to parse LLM decision"]
              [] parsed.tag = "error"  ->
                    [selected_user_id |-> Null, reasoning |-> "Error"]

\* next((u for u in matching_users if str(u["_id"]) == selected_user_id), None)
FindCandidate(matching_users, selected_user_id) ==
    LET hits == {i \in 1..Len(matching_users) :
                    StrOf(matching_users[i]) = selected_user_id}
    IN IF hits = {} THEN NoId
       ELSE matching_users[CHOOSE i \in hits : \A j \in hits : i <= j]

(***************************************************************************)
(* No-match report and requisition draft (ai/reports.py, job_service.py)   *)
(***************************************************************************)
\* JSON objects the oracle may return: with or without a title, with or
\* without an HTML description
ReportPayloads ==
    { [suggested_job_title |-> t, suggested_job_description |-> d]
        : t \in {Missing, "oracle title"}, d \in {Missing, "oracle html"} }

\* the report could not be produced: an IndexError left the function
Raised == [suggested_job_title |-> "<raised>", suggested_job_description |-> "<raised>"]

generate_no_match_report(required_skills, resp) ==
    LET parsed == LenientParse(resp)
    IN IF parsed.tag = "ok"
       THEN [suggested_job_title |-> parsed.value.suggested_job_title,
             suggested_job_description |->
                 IF parsed.value.suggested_job_description = Missing
                 THEN "fallback html"
                 ELSE parsed.value.suggested_job_description]
       ELSE \* fallback: required_skills[0] when fewer than two skills
            IF Len(required_skills) > 1
            THEN [suggested_job_title |-> "Developer - first two skills",
                  suggested_job_description |-> "fallback html"]
            ELSE IF required_skills = <<>> THEN Raised
            ELSE [suggested_job_title |-> "first skill Developer",
                  suggested_job_description |-> "fallback html"]

\* report.get("suggested_job_title", f"Developer - {required_skills[0]}"):
\* the default is evaluated before the lookup
RequisitionTitle(report, required_skills) ==
    IF required_skills = <<>> THEN "<raised>"
    ELSE IF report.suggested_job_title = Missing THEN "Developer - first skill"
    ELSE report.suggested_job_title

(***************************************************************************)
(* State                                                                   *)
(***************************************************************************)
VARIABLES
    users,             \* collection "users": id -> document
    issues,            \* collection "issues": id -> document
    tasks,             \* collection "tasks": id -> document
    job_requisitions,  \* collection "job_requisitions": id -> document
    work_sessions,     \* collection "work_sessions": id -> document
    nextId,            \* the next ObjectId the store hands out
    run,               \* the requests in flight: locals and position of each
    requests,          \* number of requests received so far
    operator_acted,    \* <<requisition, request>>: what operators have done
    operator_actions,  \* number of operator requests made so far
    call,              \* the latest direct call of an AI helper and its result
    commits,           \* collection "commits": id -> document
    commit_run,        \* the commit requests in flight: locals and position
    commit_requests    \* number of commits received so far

vars == <<users, issues, tasks, job_requisitions, work_sessions, nextId, run,
          requests, operator_acted, operator_actions, call,
          commits, commit_run, commit_requests>>

store == <<users, issues, tasks, job_requisitions, work_sessions, nextId>>
operator == <<operator_acted, operator_actions>>
\* the commit pipeline's own state
commit_state == <<commits, commit_run, commit_requests>>
\* state the issue intake and the operators never touch
aside == <<call, commit_state>>

\* request bodies
Title == <<"implement", "jwt", "login", "with", "docker">>
Descriptions == { <<>>, <<"more", "details">> }
Priority == "high"

\* the e-mail address of the i-th developer
EmailOf(i) == "dev" \o ToString(i)

\* the users the store may hold before the requests arrive
UserProfile(i) ==
    IF i % 2 = 1
    THEN [name |-> "developer", email |-> EmailOf(i), hourly_rate |-> "50.0",
          skills |-> <<"Python">>,
          work_profile_embeddings |-> <<1, 0>>, profile_text |-> "profile"]
    ELSE [name |-> "developer", email |-> EmailOf(i), hourly_rate |-> "50.0",
          skills |-> <<"Rust">>,
          work_profile_embeddings |-> <<0, 1>>, profile_text |-> "profile"]

\* the issues the store may hold before the requests arrive
PriorIssue(i) ==
    [ description_embedding |-> IF i % 2 = 1 THEN <<1, 0>> ELSE <<0, 1>>,
      required_skills |-> <<"Python">>,
      skill_embeddings |-> <<1, 0>>,
      priority |-> "medium",
      assigned_user_id |-> Null,
      assignment_status |-> "pending",
      activity_log |-> <<>> ]

\* of a report the run keeps what it reads again: the suggested title
NoReport == [suggested_job_title |-> Null]
Kept(report) == [suggested_job_title |-> report.suggested_job_title]

\* no helper has been called directly
NoCall == [fn |-> "none", args |-> <<>>, oracle_calls |-> 0, parsed |-> "none",
           result |-> Null]

\* the duplicate check has not been made
NotChecked == [path |-> "none", confidence |-> Null]

\* locals of process_commit / process_commit_with_ai
IdleCommit ==
    [ pc |-> "idle", kind |-> "none",
      skills_used |-> <<>>,          \* analysis["skills_used"]
      user |-> NoId,                 \* the author's user id, NoId when not found
      current_skills |-> <<>>,       \* user.get("skills", []) as read
      new_skills_to_add |-> <<>>,    \* profile_check.get("new_skills_to_add", [])
      updated_skills |-> <<>>,       \* list(set(current_skills + new_skills_to_add))
      new_embedding |-> NoVector,    \* generate_embedding(", ".join(updated_skills))
      updated_profile_text |-> Null,
      triggered_profile_update |-> "false",
      commit_id |-> NoId,
      status |-> "none" ]

IdleRun ==
    [ pc |-> "idle", kind |-> "none",
      description |-> <<>>,
      description_embedding |-> NoVector,
      similar_issues |-> <<>>,
      is_duplicate |-> "false",    \* duplicate_check.get("is_duplicate", False)
      parent_task_id |-> Null,     \* duplicate_check.get("parent_task_id")
      required_skills |-> <<>>,
      skill_embedding |-> NoVector,
      item |-> NoId,               \* issue_id / task_id
      users_count |-> 0,           \* len(all_users)
      matching_users |-> <<>>,     \* ids of the ranked candidates, best first
      assignee |-> Null,           \* the user id about to be written
      update_priority |-> Missing, \* update_data["priority"] of a merge
      new_skills |-> <<>>,         \* update_data["required_skills"] of a merge
      report |-> NoReport,
      status |-> "none",           \* "status" / "action" of the result
      \* history of the run
      validation_calls |-> 0,      \* oracle calls made for candidate validation
      validation |-> "none",       \* how the validation call ended: "failed"
                                   \* (raised, no JSON), "null", "selected"
      validated |-> Null,          \* evaluation.get("selected_user_id")
      sent |-> <<>>,               \* candidates the validation prompt listed
      docs_inserted |-> 0,         \* work-item documents inserted by the run
      reqs_inserted |-> 0,         \* requisition documents inserted by the run
      duplicate_check |-> NotChecked, \* how the duplicate check ended
      store_failed |-> FALSE ]     \* a store operation of the run has raised

Init ==
    /\ \E n \in 0..MaxUsers : users = [i \in 1..n |-> UserProfile(i)]
    /\ \E n \in 0..MaxPriorIssues :
         issues = [i \in (MaxUsers + 1)..(MaxUsers + n) |-> PriorIssue(i)]
    /\ tasks = <<>>
    /\ job_requisitions = <<>>
    /\ work_sessions = <<>>
    /\ nextId = MaxUsers + MaxPriorIssues + 1
    /\ run = [p \in RunIds |-> IdleRun]
    /\ requests = 0
    /\ operator_acted = {}
    /\ operator_actions = 0
    /\ call = NoCall
    /\ commits = <<>>
    /\ commit_run = [p \in RunIds |-> IdleCommit]
    /\ commit_requests = 0

\* db.insert_one: the collection with the document added under a fresh id
Insert(coll, id, doc) ==
    [i \in DOMAIN coll \cup {id} |-> IF i = id THEN doc ELSE coll[i]]

\* a request is served by the lowest slot that holds no run in flight
Free(p) == run[p].pc \in {"idle", "done", "aborted"}
Accepts(p) ==
    /\ requests < MaxRequests
    /\ Free(p)
    /\ \A q \in RunIds : q < p => ~Free(q)

\* the run returns (or raises): its locals are gone, its result and the
\* counts of what it did stay
Finished(r, pc, status) ==
    [IdleRun EXCEPT !.pc = pc, !.kind = r.kind, !.status = status,
                    !.item = r.item,
                    !.validation_calls = r.validation_calls,
                    !.validation = r.validation,
                    !.docs_inserted = r.docs_inserted,
                    !.reqs_inserted = r.reqs_inserted,
                    !.duplicate_check = r.duplicate_check,
                    !.store_failed = r.store_failed]

(***************************************************************************)
(* IssueService.create_issue (services/issue_service.py)                   *)
(***************************************************************************)
\* lines 51-70: embedding of the text, search for similar issues
SvcStart(p) ==
    /\ requests' = requests + 1
    /\ \E description \in Descriptions, emb \in EmbResponses :
         LET description_embedding == generate_embedding(Title \o description, emb)
         IN run' = [run EXCEPT ![p] = [IdleRun EXCEPT
                !.pc = "svc_duplicate", !.kind = "svc",
                !.description = description,
                !.description_embedding = description_embedding,
                !.similar_issues =
                    search_similar_issues(issues, description_embedding, 3, 70)]]
    /\ UNCHANGED <<store, operator, aside>>

\* a request served when no other is in flight or queued before it
SvcSearch(p) == Accepts(p) /\ SvcStart(p)

\* lines 72-103: duplicate check, then skill extraction
SvcDuplicateCheck(p) ==
    /\ run[p].pc = "svc_duplicate"
    /\ \E dresp \in Response(DuplicatePayloads(run[p].similar_issues)),
          sresp \in Response(SkillArrays), emb \in EmbResponses :
         LET duplicate_check ==
                 check_issue_duplicate_with_llm(run[p].similar_issues, dresp)
             required_skills ==
                 extract_skills_from_task(Title, run[p].description, sresp)
         IN run' = [run EXCEPT ![p] = [@ EXCEPT
                !.pc = "svc_insert",
                !.similar_issues = <<>>, !.description = <<>>,
                !.is_duplicate = Get(duplicate_check.is_duplicate, "false"),
                !.parent_task_id = Get(duplicate_check.parent_task_id, Null),
                !.duplicate_check =
                    [path |-> DuplicateCheckPath(run[p].similar_issues, dresp),
                     confidence |-> duplicate_check.confidence],
                !.required_skills = required_skills,
                !.skill_embedding = generate_embedding(required_skills, emb)]]
    /\ UNCHANGED <<store, requests, operator, aside>>

\* variant: the search for similar issues is repeated in one step with the
\* insert, and the run ends as a duplicate when it now finds one
SvcInsertRechecked(p) ==
    /\ run[p].pc = "svc_insert"
    /\ LET r == run[p]
           issue_doc ==
               [ description_embedding |-> r.description_embedding,
                 required_skills |-> r.required_skills,
                 skill_embeddings |-> r.skill_embedding,
                 priority |-> Priority,
                 assigned_user_id |-> Null,
                 assignment_status |-> "pending",
                 activity_log |-> <<>> ]
           rr == [r EXCEPT !.item = nextId, !.docs_inserted = @ + 1,
                           !.is_duplicate = "false", !.parent_task_id = Null,
                           !.skill_embedding = NoVector]
       IN IF search_similar_issues(issues, r.description_embedding, 3, 70) # <<>>
          THEN /\ run' = [run EXCEPT ![p] = Finished(r, "done", "duplicate_detected")]
               /\ UNCHANGED <<issues, nextId>>
          ELSE /\ issues' = Insert(issues, nextId, issue_doc)
               /\ nextId' = nextId + 1
               /\ IF Truthy(r.is_duplicate) /\ Truthy(r.parent_task_id)
                  THEN run' = [run EXCEPT ![p] = Finished(rr, "done", "duplicate_detected")]
                  ELSE run' = [run EXCEPT ![p] = [rr EXCEPT !.pc = "svc_users"]]
    /\ UNCHANGED <<users, tasks, job_requisitions, work_sessions, requests, operator, aside>>

\* lines 105-117: the issue document is inserted; a confirmed duplicate
\* returns after it
SvcInsert(p) ==
    /\ run[p].pc = "svc_insert"
    /\ LET r == run[p]
           issue_doc ==
               [ description_embedding |-> r.description_embedding,
                 required_skills |-> r.required_skills,
                 skill_embeddings |-> r.skill_embedding,
                 priority |-> Priority,
                 assigned_user_id |-> Null,
                 assignment_status |-> "pending",
                 activity_log |-> <<>> ]
           rr == [r EXCEPT !.item = nextId, !.docs_inserted = @ + 1,
                           !.is_duplicate = "false", !.parent_task_id = Null,
                           !.skill_embedding = NoVector]
       IN /\ issues' = Insert(issues, nextId, issue_doc)
          /\ nextId' = nextId + 1
          /\ IF Truthy(r.is_duplicate) /\ Truthy(r.parent_task_id)
             THEN run' = [run EXCEPT ![p] = Finished(rr, "done", "duplicate_detected")]
             ELSE run' = [run EXCEPT ![p] = [rr EXCEPT !.pc = "svc_users"]]
    /\ UNCHANGED <<users, tasks, job_requisitions, work_sessions, requests, operator, aside>>

\* lines 121-193: the users are read and ranked
SvcFindUsers(p) ==
    /\ run[p].pc = "svc_users"
    /\ \E embs \in [1..(Cardinality(DOMAIN users) + 1) -> EmbResponses] :
         LET r == run[p]
             matching_users ==
                 find_best_matching_users(r.required_skills, r.description_embedding,
                                          users, 5, embs)
             rr == [r EXCEPT !.users_count = Cardinality(DOMAIN users),
                             !.description_embedding = NoVector]
         IN IF DOMAIN users = {}
            THEN run' = [run EXCEPT ![p] =
                    [rr EXCEPT !.pc = "svc_report", !.status = "no_users_available"]]
            ELSE IF matching_users = <<>>
            THEN run' = [run EXCEPT ![p] =
                    [rr EXCEPT !.pc = "svc_report", !.status = "no_match"]]
            ELSE run' = [run EXCEPT ![p] =
                    [rr EXCEPT !.pc = "svc_evaluate",
                               !.matching_users = Ids(matching_users)]]
    /\ UNCHANGED <<store, requests, operator, aside>>

\* lines 195-216: batch validation by the oracle and the choice it leads to
SvcEvaluate(p) ==
    /\ run[p].pc = "svc_evaluate"
    /\ \E resp \in Response(EvaluationPayloads(run[p].matching_users)) :
         LET r == run[p]
             evaluation == evaluate_candidates_batch(r.matching_users, resp)
             selected_user_id == evaluation.selected_user_id
             assigned_user ==
                 IF Truthy(selected_user_id)
                 THEN FindCandidate(r.matching_users, selected_user_id) ELSE NoId
             rr == [r EXCEPT !.validation_calls = @ + 1,
                             !.sent = PromptCandidates(r.matching_users),
                             !.validation =
                                 IF LenientParse(resp).tag # "ok" THEN "failed"
                                 ELSE IF Truthy(selected_user_id) THEN "selected"
                                 ELSE "null",
                             !.validated = Get(selected_user_id, Null)]
         IN IF assigned_user # NoId
            THEN run' = [run EXCEPT ![p] =
                    [rr EXCEPT !.pc = "svc_assign", !.assignee = selected_user_id]]
            ELSE run' = [run EXCEPT ![p] =
                    [rr EXCEPT !.pc = "svc_report", !.matching_users = <<>>,
                               !.status = "no_qualified_match"]]
    /\ UNCHANGED <<store, requests, operator, aside>>

\* JobService.create_job_requisition (services/job_service.py lines 48-71)
JobServiceRequisition(task_id) ==
    [ task_id |-> task_id,
      linkedin_job_title_id |-> Null,
      linkedin_location_id |-> Null,
      status |-> "pending",
      linkedin_job_id |-> Null,
      admin_approved |-> Missing,
      created_by |-> "system" ]

\* variant: the assignment is written and a requisition is opened with it
SvcAssignWithRequisition(p) ==
    /\ run[p].pc = "svc_assign"
    /\ issues' = [issues EXCEPT ![run[p].item] =
                    [@ EXCEPT !.assigned_user_id = run[p].assignee,
                              !.assignment_status = "assigned"]]
    /\ job_requisitions' = Insert(job_requisitions, nextId,
                                  JobServiceRequisition(StrOf(run[p].item)))
    /\ nextId' = nextId + 1
    /\ run' = [run EXCEPT ![p] = Finished(run[p], "done", "assigned")]
    /\ UNCHANGED <<users, tasks, work_sessions, requests, operator, aside>>

\* lines 217-238: the assignment is written
SvcAssign(p) ==
    /\ run[p].pc = "svc_assign"
    /\ issues' = [issues EXCEPT ![run[p].item] =
                    [@ EXCEPT !.assigned_user_id = run[p].assignee,
                              !.assignment_status = "assigned"]]
    /\ run' = [run EXCEPT ![p] = Finished(run[p], "done", "assigned")]
    /\ UNCHANGED <<users, tasks, job_requisitions, work_sessions, nextId,
                   requests, operator, aside>>

\* lines 127-129, 169-171, 243-249: the no-match report
SvcReport(p) ==
    /\ run[p].pc = "svc_report"
    /\ \E resp \in Response(ReportPayloads) :
         LET report == generate_no_match_report(run[p].required_skills, resp)
         IN IF report = Raised
            THEN run' = [run EXCEPT ![p] = Finished(run[p], "aborted", "IndexError")]
            ELSE run' = [run EXCEPT ![p] = [@ EXCEPT !.pc = "svc_requisition",
                                                     !.report = Kept(report),
                                                     !.sent = <<>>]]
    /\ UNCHANGED <<store, requests, operator, aside>>

\* lines 130-132, 172-174, 251-253: create_job_requisition_from_report
\* (services/job_service.py lines 199-225)
SvcRequisition(p) ==
    /\ run[p].pc = "svc_requisition"
    /\ LET r == run[p]
           suggested_title == RequisitionTitle(r.report, r.required_skills)
       IN IF suggested_title = "<raised>"
          THEN /\ run' = [run EXCEPT ![p] = Finished(r, "aborted", "IndexError")]
               /\ UNCHANGED <<job_requisitions, nextId>>
          ELSE /\ job_requisitions' =
                     Insert(job_requisitions, nextId,
                            JobServiceRequisition(StrOf(r.item)))
               /\ nextId' = nextId + 1
               /\ run' = [run EXCEPT ![p] =
                            [r EXCEPT !.pc = "svc_mark", !.reqs_inserted = @ + 1,
                                      !.required_skills = <<>>, !.report = NoReport]]
    /\ UNCHANGED <<users, issues, tasks, work_sessions, requests, operator, aside>>

\* variant: the escalated issue is marked assigned
SvcMarkAssigned(p) ==
    /\ run[p].pc = "svc_mark"
    /\ issues' = [issues EXCEPT ![run[p].item] =
                    [@ EXCEPT !.assignment_status = "assigned"]]
    /\ run' = [run EXCEPT ![p] = Finished(run[p], "done", run[p].status)]
    /\ UNCHANGED <<users, tasks, job_requisitions, work_sessions, nextId,
                   requests, operator, aside>>

\* lines 134-147, 176-189, 255-270: the issue is marked posting_required
SvcMark(p) ==
    /\ run[p].pc = "svc_mark"
    /\ issues' = [issues EXCEPT ![run[p].item] =
                    [@ EXCEPT !.assignment_status = "posting_required"]]
    /\ run' = [run EXCEPT ![p] = Finished(run[p], "done", run[p].status)]
    /\ UNCHANGED <<users, tasks, job_requisitions, work_sessions, nextId,
                   requests, operator, aside>>

(***************************************************************************)
(* handle_issue_created (services/jira_handlers.py)                        *)
(***************************************************************************)
\* lines 33-135: the webhook is read, skills are extracted, the text is
\* embedded and the task document is inserted.  The embedding of the skills
\* text (line 111) is never read again.
JiraCreateTask(p) ==
    /\ Accepts(p)
    /\ requests' = requests + 1
    /\ \E body \in Descriptions, sresp \in Response(SkillArrays), emb \in EmbResponses :
         LET description == IF body # <<>> THEN body ELSE <<"task">> \o Title
             task_doc == [ current_assignee_ids |-> <<>> ]
         IN /\ tasks' = Insert(tasks, nextId, task_doc)
            /\ run' = [run EXCEPT ![p] = [IdleRun EXCEPT
                   !.pc = "jira_users", !.kind = "jira",
                   !.required_skills = extract_skills_from_task(Title, description, sresp),
                   !.description_embedding =
                       generate_embedding(Title \o description, emb),
                   !.item = nextId, !.docs_inserted = 1]]
    /\ nextId' = nextId + 1
    /\ UNCHANGED <<users, issues, job_requisitions, work_sessions, operator, aside>>

\* lines 137-192: the users are read and ranked
JiraFindUsers(p) ==
    /\ run[p].pc = "jira_users"
    /\ \E embs \in [1..(Cardinality(DOMAIN users) + 1) -> EmbResponses] :
         LET r == run[p]
             matching_users ==
                 find_best_matching_users(r.required_skills, r.description_embedding,
                                          users, 5, embs)
             rr == [r EXCEPT !.users_count = Cardinality(DOMAIN users),
                             !.description_embedding = NoVector]
         IN IF DOMAIN users = {}
            THEN run' = [run EXCEPT ![p] =
                    [rr EXCEPT !.pc = "jira_report", !.status = "no_users_available"]]
            ELSE IF matching_users = <<>>
            THEN run' = [run EXCEPT ![p] =
                    [rr EXCEPT !.pc = "jira_report", !.status = "no_match"]]
            ELSE run' = [run EXCEPT ![p] =
                    [rr EXCEPT !.pc = "jira_evaluate",
                               !.matching_users = Ids(matching_users)]]
    /\ UNCHANGED <<store, requests, operator, aside>>

\* lines 198-218: batch validation by the oracle and the choice it leads to
JiraEvaluate(p) ==
    /\ run[p].pc = "jira_evaluate"
    /\ \E resp \in Response(EvaluationPayloads(run[p].matching_users)) :
         LET r == run[p]
             evaluation == evaluate_candidates_batch(r.matching_users, resp)
             selected_user_id == evaluation.selected_user_id
             assigned_user ==
                 IF Truthy(selected_user_id)
                 THEN FindCandidate(r.matching_users, selected_user_id) ELSE NoId
             rr == [r EXCEPT !.validation_calls = @ + 1,
                             !.sent = PromptCandidates(r.matching_users),
                             !.validation =
                                 IF LenientParse(resp).tag # "ok" THEN "failed"
                                 ELSE IF Truthy(selected_user_id) THEN "selected"
                                 ELSE "null",
                             !.validated = Get(selected_user_id, Null)]
         IN IF assigned_user # NoId
            THEN run' = [run EXCEPT ![p] =
                    [rr EXCEPT !.pc = "jira_assign", !.assignee = StrOf(assigned_user)]]
            ELSE run' = [run EXCEPT ![p] =
                    [rr EXCEPT !.pc = "jira_report", !.matching_users = <<>>,
                               !.status = "no_qualified_match"]]
    /\ UNCHANGED <<store, requests, operator, aside>>

\* lines 219-226: the assignee is written to the task
JiraAssign(p) ==
    /\ run[p].pc = "jira_assign"
    /\ tasks' = [tasks EXCEPT ![run[p].item] =
                    [@ EXCEPT !.current_assignee_ids = <<run[p].assignee>>]]
    /\ run' = [run EXCEPT ![p] = [@ EXCEPT !.pc = "jira_session"]]
    /\ UNCHANGED <<users, issues, job_requisitions, work_sessions, nextId,
                   requests, operator, aside>>

\* lines 228-257: the work session is inserted and the handler returns
JiraWorkSession(p) ==
    /\ run[p].pc = "jira_session"
    /\ work_sessions' = Insert(work_sessions, nextId,
                               [ task_id |-> StrOf(run[p].item),
                                 user_id |-> run[p].assignee ])
    /\ nextId' = nextId + 1
    /\ run' = [run EXCEPT ![p] = Finished(run[p], "done", "assigned")]
    /\ UNCHANGED <<users, issues, tasks, job_requisitions, requests, operator, aside>>

\* lines 144-147, 176-179, 262-268: the no-match report
JiraReport(p) ==
    /\ run[p].pc = "jira_report"
    /\ \E resp \in Response(ReportPayloads) :
         LET report == generate_no_match_report(run[p].required_skills, resp)
         IN IF report = Raised
            THEN run' = [run EXCEPT ![p] = Finished(run[p], "aborted", "IndexError")]
            ELSE run' = [run EXCEPT ![p] = [@ EXCEPT !.pc = "jira_requisition",
                                                     !.report = Kept(report),
                                                     !.sent = <<>>]]
    /\ UNCHANGED <<store, requests, operator, aside>>

\* variant: the requisition document is created already approved
JiraRequisitionDocApproved(task_id) ==
    [ task_id |-> task_id,
      linkedin_job_title_id |-> Missing,
      linkedin_location_id |-> Missing,
      status |-> "pending",
      linkedin_job_id |-> Missing,
      admin_approved |-> "true",
      created_by |-> "system" ]

\* create_job_requisition (lines 400-441): the requisition document
JiraRequisitionDoc(task_id) ==
    [ task_id |-> task_id,
      linkedin_job_title_id |-> Missing,
      linkedin_location_id |-> Missing,
      status |-> "pending",
      linkedin_job_id |-> Missing,
      admin_approved |-> "false",
      created_by |-> "system" ]

\* lines 150-161, 182-193, 270-283: create_job_requisition, then the
\* handler returns
JiraRequisition(p) ==
    /\ run[p].pc = "jira_requisition"
    /\ LET r == run[p]
           suggested_title == RequisitionTitle(r.report, r.required_skills)
       IN IF suggested_title = "<raised>"
          THEN /\ run' = [run EXCEPT ![p] = Finished(r, "aborted", "IndexError")]
               /\ UNCHANGED <<job_requisitions, nextId>>
          ELSE /\ job_requisitions' =
                     Insert(job_requisitions, nextId, JiraRequisitionDoc(StrOf(r.item)))
               /\ nextId' = nextId + 1
               /\ run' = [run EXCEPT ![p] =
                            Finished([r EXCEPT !.reqs_inserted = @ + 1],
                                     "done", r.status)]
    /\ UNCHANGED <<users, issues, tasks, work_sessions, requests, operator, aside>>

(***************************************************************************)
(* create_issue_with_ai (main.py, POST /api/issues)                        *)
(***************************************************************************)
\* lines 710-737: the body is read and checked, the text is embedded and
\* similar issues are searched.  The 400 raised for a blank title or
\* description is caught by the handler's own except clause (line 927).
ApiSearch(p) ==
    /\ Accepts(p)
    /\ requests' = requests + 1
    /\ \E description \in Descriptions, emb \in EmbResponses :
         LET issue_embedding == generate_embedding(Title \o description, emb)
             r == [IdleRun EXCEPT !.kind = "api"]
         IN IF description = <<>>
            THEN run' = [run EXCEPT ![p] = Finished(r, "aborted", "invalid_request")]
            ELSE run' = [run EXCEPT ![p] = [r EXCEPT
                    !.pc = "api_duplicate",
                    !.description = description,
                    !.description_embedding = issue_embedding,
                    !.similar_issues =
                        search_similar_issues(issues, issue_embedding, 5, 70)]]
    /\ UNCHANGED <<store, operator, aside>>

\* lines 741-794 and 811-843: the duplicate check; then either the update
\* of the parent is prepared, or the skills are extracted and embedded
ApiDuplicateCheck(p) ==
    /\ run[p].pc = "api_duplicate"
    /\ \E dresp \in Response(DuplicatePayloads(run[p].similar_issues)),
          sresp \in Response(SkillArrays), emb \in EmbResponses :
         LET r == run[p]
             llm_analysis == check_issue_duplicate_with_llm(r.similar_issues, dresp)
             required_skills == extract_skills_from_task(Title, r.description, sresp)
             rr == [r EXCEPT !.similar_issues = <<>>, !.description = <<>>,
                             !.duplicate_check =
                                 [path |-> DuplicateCheckPath(r.similar_issues, dresp),
                                  confidence |-> llm_analysis.confidence]]
         IN IF Missing \in {llm_analysis.is_duplicate, llm_analysis.confidence,
                            llm_analysis.reasoning}
            THEN \* llm_analysis['is_duplicate'] raises KeyError
                 run' = [run EXCEPT ![p] = Finished(rr, "aborted", "KeyError")]
            ELSE IF Truthy(llm_analysis.is_duplicate)
                    /\ Truthy(llm_analysis.parent_task_id)
            THEN run' = [run EXCEPT ![p] = [rr EXCEPT
                    !.pc = "api_merge",
                    !.is_duplicate = "true",
                    !.parent_task_id = llm_analysis.parent_task_id,
                    !.update_priority =
                        IF Truthy(llm_analysis.priority_change)
                        THEN Priority ELSE Missing,
                    !.new_skills = llm_analysis.new_skills_required,
                    !.skill_embedding =
                        IF llm_analysis.new_skills_required # <<>>
                        THEN generate_embedding(llm_analysis.new_skills_required, emb)
                        ELSE NoVector,
                    !.description_embedding =
                        IF llm_analysis.new_skills_required # <<>>
                        THEN r.description_embedding ELSE NoVector]]
            ELSE run' = [run EXCEPT ![p] = [rr EXCEPT
                    !.pc = "api_insert",
                    !.required_skills = required_skills,
                    !.skill_embedding = generate_embedding(required_skills, emb)]]
    /\ UNCHANGED <<store, requests, operator, aside>>

\* lines 797-808: update_one_raw on the parent ($set and $push)
ApiMergeParent(p) ==
    /\ run[p].pc = "api_merge"
    /\ LET r == run[p]
           parent == ObjectIdOf(r.parent_task_id)
       IN /\ issues' =
                IF parent \in DOMAIN issues
                THEN [issues EXCEPT ![parent] = [@ EXCEPT
                        !.priority = Get(r.update_priority, @),
                        !.required_skills =
                            IF r.new_skills # <<>> THEN r.new_skills ELSE @,
                        !.skill_embeddings =
                            IF r.new_skills # <<>> THEN r.skill_embedding ELSE @,
                        !.description_embedding =
                            IF r.new_skills # <<>> THEN r.description_embedding ELSE @,
                        !.activity_log = Append(@, "Related issue reported")]]
                ELSE issues
          /\ run' = [run EXCEPT ![p] = Finished(r, "done", "updated_existing")]
    /\ UNCHANGED <<users, tasks, job_requisitions, work_sessions, nextId,
                   requests, operator, aside>>

\* lines 828-847: create_issue_document
ApiInsert(p) ==
    /\ run[p].pc = "api_insert"
    /\ LET r == run[p]
           issue_doc ==
               [ description_embedding |-> r.description_embedding,
                 required_skills |-> r.required_skills,
                 skill_embeddings |-> r.skill_embedding,
                 priority |-> Priority,
                 assigned_user_id |-> Null,
                 assignment_status |-> "pending",
                 activity_log |-> <<"Issue created">> ]
       IN /\ issues' = Insert(issues, nextId, issue_doc)
          /\ run' = [run EXCEPT ![p] = [r EXCEPT
                 !.pc = "api_match", !.item = nextId, !.docs_inserted = @ + 1,
                 !.description_embedding = NoVector]]
    /\ nextId' = nextId + 1
    /\ UNCHANGED <<users, tasks, job_requisitions, work_sessions, requests, operator, aside>>

\* lines 851-869 and 896-903: find_matching_users_by_skills and the choice
\* between the best match and the job-posting placeholder
ApiMatchUsers(p) ==
    /\ run[p].pc = "api_match"
    /\ LET r == run[p]
           matching_users ==
               Ids(find_matching_users_by_skills(users, r.required_skills,
                                                 r.skill_embedding, 5, 500))
           rr == [r EXCEPT !.users_count = Cardinality(DOMAIN users),
                           !.required_skills = <<>>, !.skill_embedding = NoVector]
       IN IF matching_users # <<>>
          THEN run' = [run EXCEPT ![p] = [rr EXCEPT
                  !.pc = "api_assign", !.matching_users = matching_users,
                  !.assignee = StrOf(matching_users[1])]]
          ELSE run' = [run EXCEPT ![p] = [rr EXCEPT !.pc = "api_mark"]]
    /\ UNCHANGED <<store, requests, operator, aside>>

\* lines 871-894: update_issue writes the assignment
ApiAssign(p) ==
    /\ run[p].pc = "api_assign"
    /\ issues' = [issues EXCEPT ![run[p].item] =
                    [@ EXCEPT !.assigned_user_id = run[p].assignee,
                              !.assignment_status = "assigned"]]
    /\ run' = [run EXCEPT ![p] = Finished(run[p], "done", "created_and_assigned")]
    /\ UNCHANGED <<users, tasks, job_requisitions, work_sessions, nextId,
                   requests, operator, aside>>

\* lines 905-915: update_issue marks the issue posting_required
ApiMark(p) ==
    /\ run[p].pc = "api_mark"
    /\ issues' = [issues EXCEPT ![run[p].item] =
                    [@ EXCEPT !.assignment_status = "posting_required"]]
    /\ run' = [run EXCEPT ![p] = Finished(run[p], "done", "created_requires_posting")]
    /\ UNCHANGED <<users, tasks, job_requisitions, work_sessions, nextId,
                   requests, operator, aside>>

(***************************************************************************)
(* Operator requests on requisitions (services/job_service.py,             *)
(* routes/jobs.py, routes/careers.py).  None of them is called by a        *)
(* pipeline; each is one request of a human operator.                      *)
(***************************************************************************)
\* the bodies an operator may send with PATCH /requisitions/{id}, after the
\* None values are filtered out (routes/jobs.py line 84)
RequisitionUpdates ==
    { [linkedin_job_title_id |-> "title-id", linkedin_location_id |-> Missing],
      [linkedin_job_title_id |-> Missing, linkedin_location_id |-> "location-id"],
      [linkedin_job_title_id |-> "title-id", linkedin_location_id |-> "location-id"] }

\* JobService.approve_job_requisition (lines 170-191)
ApproveRequisition ==
    /\ operator_actions < MaxOperatorActions
    /\ \E requisition_id \in DOMAIN job_requisitions :
         /\ job_requisitions' = [job_requisitions EXCEPT ![requisition_id] =
                                    [@ EXCEPT !.admin_approved = "true"]]
         /\ operator_acted' = operator_acted \cup {<<requisition_id, "approve">>}
    /\ operator_actions' = operator_actions + 1
    /\ UNCHANGED <<users, issues, tasks, work_sessions, nextId, run, requests, aside>>

\* JobService.update_job_requisition (lines 87-112)
UpdateRequisition ==
    /\ operator_actions < MaxOperatorActions
    /\ \E requisition_id \in DOMAIN job_requisitions, update_data \in RequisitionUpdates :
         /\ job_requisitions' = [job_requisitions EXCEPT ![requisition_id] =
               [@ EXCEPT
                  !.linkedin_job_title_id = Get(update_data.linkedin_job_title_id, @),
                  !.linkedin_location_id = Get(update_data.linkedin_location_id, @),
                  !.status = IF Truthy(update_data.linkedin_job_title_id)
                                /\ Truthy(update_data.linkedin_location_id)
                             THEN "ready" ELSE @]]
         /\ operator_acted' = operator_acted \cup {<<requisition_id, "update">>}
    /\ operator_actions' = operator_actions + 1
    /\ UNCHANGED <<users, issues, tasks, work_sessions, nextId, run, requests, aside>>

\* JobService.post_job_to_linkedin (lines 114-168); the job board either
\* accepts the posting or the call raises
PostJobToLinkedin ==
    /\ operator_actions < MaxOperatorActions
    /\ \E requisition_id \in DOMAIN job_requisitions, accepted \in BOOLEAN :
         LET requisition == job_requisitions[requisition_id]
         IN IF /\ Truthy(requisition.linkedin_job_title_id)
               /\ Truthy(requisition.linkedin_location_id)
               /\ accepted
            THEN /\ job_requisitions' = [job_requisitions EXCEPT ![requisition_id] =
                        [@ EXCEPT !.linkedin_job_id = "job-id", !.status = "posted"]]
                 /\ operator_acted' = operator_acted \cup {<<requisition_id, "post">>}
            ELSE UNCHANGED <<job_requisitions, operator_acted>>
    /\ operator_actions' = operator_actions + 1
    /\ UNCHANGED <<users, issues, tasks, work_sessions, nextId, run, requests, aside>>

\* get_public_careers (routes/careers.py lines 17-50): the listing
PublicCareers ==
    { id \in DOMAIN job_requisitions : job_requisitions[id].admin_approved = "true" }

Operator ==
        \/ ApproveRequisition
        \/ UpdateRequisition
        \/ PostJobToLinkedin

Pipeline(p) ==
        \/ SvcSearch(p)
        \/ SvcDuplicateCheck(p)
        \/ SvcInsert(p)
        \/ SvcFindUsers(p)
        \/ SvcEvaluate(p)
        \/ SvcAssign(p)
        \/ SvcReport(p)
        \/ SvcRequisition(p)
        \/ SvcMark(p)
        \/ JiraCreateTask(p)
        \/ JiraFindUsers(p)
        \/ JiraEvaluate(p)
        \/ JiraAssign(p)
        \/ JiraWorkSession(p)
        \/ JiraReport(p)
        \/ JiraRequisition(p)
        \/ ApiSearch(p)
        \/ ApiDuplicateCheck(p)
        \/ ApiMergeParent(p)
        \/ ApiInsert(p)
        \/ ApiMatchUsers(p)
        \/ ApiAssign(p)
        \/ ApiMark(p)

Next ==
        \/ \E p \in Serial : Pipeline(p)
        \/ Operator

Spec == Init /\ [][Next]_vars

(***************************************************************************)
(* Concurrent requests to IssueService.create_issue.  The event loop runs  *)
(* one coroutine until its next await; a second request may be admitted    *)
(* and may run between any two steps of the first.                         *)
(***************************************************************************)
\* a request is admitted whenever a slot is free
ConcurrentAccepts(p) ==
    /\ requests < MaxConcurrent
    /\ Free(p)
    /\ \A q \in RunIds : q < p => ~Free(q)

\* the embedding requests fail or are answered with text that is not JSON,
\* so that every embedding is the sha256-derived vector of its text or the
\* zero vector
HashEmbeddingsOnly ==
    \A p \in RunIds :
        /\ run[p].description_embedding \in {NoVector, ZeroVector, <<3, 4>>, <<4, 3>>}
        /\ run[p].skill_embedding \in {NoVector, ZeroVector, <<3, 4>>, <<4, 3>>}

ConcurrentSearch(p) == ConcurrentAccepts(p) /\ SvcStart(p) /\ HashEmbeddingsOnly'

ConcurrentDuplicateCheck(p) == SvcDuplicateCheck(p) /\ HashEmbeddingsOnly'

ConcurrentPipeline(p) ==
        \/ ConcurrentSearch(p)
        \/ ConcurrentDuplicateCheck(p)
        \/ SvcInsert(p)
        \/ SvcFindUsers(p)
        \/ SvcEvaluate(p)
        \/ SvcAssign(p)
        \/ SvcReport(p)
        \/ SvcRequisition(p)
        \/ SvcMark(p)

ConcurrentNext == \E p \in RunIds : ConcurrentPipeline(p)

\* the requests arrive at a store that holds one user and no issues
ConcurrentInit == Init /\ DOMAIN issues = {} /\ DOMAIN users = {1}

ConcurrentSpec == ConcurrentInit /\ [][ConcurrentNext]_vars

(***************************************************************************)
(* Store failures.  Any operation on the store may raise (connection lost, *)
(* server selection timeout).  For each step of IssueService.create_issue  *)
(* and of create_issue_with_ai that reads or writes the store there is the *)
(* step with the operation raising: the exception either leaves the        *)
(* coroutine, or is caught by the helper around the operation, which then  *)
(* returns its default.                                                    *)
(***************************************************************************)
\* the exception leaves the run: the route answers with an error status
StoreRaised(p, pc) ==
    /\ run[p].pc = pc
    /\ run' = [run EXCEPT ![p] =
                 Finished([run[p] EXCEPT !.store_failed = TRUE],
                          "aborted", "StoreUnavailable")]
    /\ UNCHANGED <<store, requests, operator, aside>>

\* search_similar_issues (utils/vector_search.py lines 51-78): find_many
\* raises inside the try block, the except clause returns []
SvcSearchStoreFails(p) ==
    /\ Accepts(p)
    /\ requests' = requests + 1
    /\ \E description \in Descriptions, emb \in EmbResponses :
         run' = [run EXCEPT ![p] = [IdleRun EXCEPT
                !.pc = "svc_duplicate", !.kind = "svc",
                !.description = description,
                !.description_embedding =
                    generate_embedding(Title \o description, emb),
                !.similar_issues = <<>>,
                !.store_failed = TRUE]]
    /\ UNCHANGED <<store, operator, aside>>

\* issue_service.py line 105: self.db.insert_one raises
SvcInsertStoreFails(p) == run[p].kind = "svc" /\ StoreRaised(p, "svc_insert")

\* line 122: self.db.find_many raises
SvcFindUsersStoreFails(p) == run[p].kind = "svc" /\ StoreRaised(p, "svc_users")

\* job_service.py line 68: self.db.insert_one raises, after the title of
\* the requisition was built
SvcRequisitionStoreFails(p) ==
    /\ run[p].pc = "svc_requisition"
    /\ RequisitionTitle(run[p].report, run[p].required_skills) # "<raised>"
    /\ StoreRaised(p, "svc_requisition")

\* line 218: self.db.update_one raises
SvcAssignStoreFails(p) == run[p].kind = "svc" /\ StoreRaised(p, "svc_assign")

\* lines 134, 176, 255: self.db.update_one raises
SvcMarkStoreFails(p) == run[p].kind = "svc" /\ StoreRaised(p, "svc_mark")

\* main.py line 732: search_similar_issues returns [] for the failed read
ApiSearchStoreFails(p) ==
    /\ Accepts(p)
    /\ requests' = requests + 1
    /\ \E description \in Descriptions \ {<<>>}, emb \in EmbResponses :
         run' = [run EXCEPT ![p] = [IdleRun EXCEPT
                !.pc = "api_duplicate", !.kind = "api",
                !.description = description,
                !.description_embedding =
                    generate_embedding(Title \o description, emb),
                !.similar_issues = <<>>,
                !.store_failed = TRUE]]
    /\ UNCHANGED <<store, operator, aside>>

\* main.py line 795: update_one_raw raises; the handler's except clause
\* (line 927) answers 500
ApiMergeParentStoreFails(p) == run[p].kind = "api" /\ StoreRaised(p, "api_merge")

\* main.py line 847: create_issue_document (utils/vector_search.py lines
\* 221-226) catches the exception and returns None; the handler goes on
\* with issue_id = None
ApiInsertStoreFails(p) ==
    /\ run[p].pc = "api_insert"
    /\ run' = [run EXCEPT ![p] = [@ EXCEPT
                 !.pc = "api_match", !.description_embedding = NoVector,
                 !.store_failed = TRUE]]
    /\ UNCHANGED <<store, requests, operator, aside>>

\* main.py line 853: find_matching_users_by_skills (utils/vector_search.py
\* lines 149-186) catches the exception and returns []
ApiMatchUsersStoreFails(p) ==
    /\ run[p].pc = "api_match"
    /\ run' = [run EXCEPT ![p] = [@ EXCEPT
                 !.pc = "api_mark", !.required_skills = <<>>,
                 !.skill_embedding = NoVector, !.store_failed = TRUE]]
    /\ UNCHANGED <<store, requests, operator, aside>>

\* main.py line 872: update_issue (utils/vector_search.py lines 252-277)
\* catches the exception and returns False, which the handler does not read
ApiAssignStoreFails(p) ==
    /\ run[p].pc = "api_assign"
    /\ run' = [run EXCEPT ![p] =
                 Finished([run[p] EXCEPT !.store_failed = TRUE],
                          "done", "created_and_assigned")]
    /\ UNCHANGED <<store, requests, operator, aside>>

\* main.py line 906: update_issue returns False
ApiMarkStoreFails(p) ==
    /\ run[p].pc = "api_mark"
    /\ run' = [run EXCEPT ![p] =
                 Finished([run[p] EXCEPT !.store_failed = TRUE],
                          "done", "created_requires_posting")]
    /\ UNCHANGED <<store, requests, operator, aside>>

StoreFailPipeline(p) ==
        \/ SvcSearch(p)
        \/ SvcDuplicateCheck(p)
        \/ SvcInsert(p)
        \/ SvcFindUsers(p)
        \/ SvcEvaluate(p)
        \/ SvcAssign(p)
        \/ SvcReport(p)
        \/ SvcRequisition(p)
        \/ SvcMark(p)
        \/ ApiSearch(p)
        \/ ApiDuplicateCheck(p)
        \/ ApiMergeParent(p)
        \/ ApiInsert(p)
        \/ ApiMatchUsers(p)
        \/ ApiAssign(p)
        \/ ApiMark(p)
        \/ SvcSearchStoreFails(p)
        \/ SvcInsertStoreFails(p)
        \/ SvcFindUsersStoreFails(p)
        \/ SvcRequisitionStoreFails(p)
        \/ SvcAssignStoreFails(p)
        \/ SvcMarkStoreFails(p)
        \/ ApiSearchStoreFails(p)
        \/ ApiMergeParentStoreFails(p)
        \/ ApiInsertStoreFails(p)
        \/ ApiMatchUsersStoreFails(p)
        \/ ApiAssignStoreFails(p)
        \/ ApiMarkStoreFails(p)

StoreFailNext == \E p \in Serial : StoreFailPipeline(p)

StoreFailSpec == Init /\ [][StoreFailNext]_vars

(***************************************************************************)
(* Commit pipeline: CommitService.process_commit                           *)
(* (services/commit_service.py) and process_commit_with_ai (main.py, POST  *)
(* /api/commits).  A step is one store operation and the synchronous code  *)
(* after it up to the next store operation; requests interleave between    *)
(* steps.  The link to a similar task is only stored on the commit         *)
(* document and is left out.                                               *)
(***************************************************************************)
\* JSON objects the oracle may return for a commit analysis
CommitPayloads ==
    { [summary |-> "summary", skills_used |-> <<"Python", "Redis">>],
      [summary |-> "summary", skills_used |-> <<"Go">>],
      [summary |-> Missing, skills_used |-> MissingList] }

\* extract_skills_from_commit_diff (ai/analysis.py lines 96-152)
extract_skills_from_commit_diff(resp) ==
    LET parsed == LenientParse(resp)
    IN IF parsed.tag = "ok" THEN parsed.value
       ELSE [summary |-> "commit message", skills_used |-> <<"Software Development">>]

\* find_user_by_email (utils/vector_search.py lines 189-205)
find_user_by_email(docs, email) ==
    LET hits == {i \in DOMAIN docs : docs[i].email = email}
    IN IF hits = {} THEN NoId ELSE CHOOSE i \in hits : \A j \in hits : i <= j

\* list(set(current_skills + new_skills_to_add)): every skill once.  The
\* order of a Python set is not specified; the list that is embedded and
\* the list that is stored are the same object, so one order stands for all.
SkillOrder == <<"Python", "Rust", "Redis", "Go", "Software Development">>
MergeSkills(current_skills, new_skills_to_add) ==
    SelectSeq(SkillOrder,
              LAMBDA skill : skill \in Range(current_skills) \cup Range(new_skills_to_add))

\* author_email of the request bodies: the first developer and a stranger
Authors == {EmailOf(1), EmailOf(MaxUsers + 1)}

\* a commit request is served by the lowest slot that holds none in flight
CommitFree(p) == commit_run[p].pc \in {"idle", "done", "aborted"}
CommitAccepts(p) ==
    /\ commit_requests < MaxCommits
    /\ CommitFree(p)
    /\ \A q \in RunIds : q < p => ~CommitFree(q)

\* the request returns (or raises): its locals are gone
FinishedCommit(r, pc, status) ==
    [IdleCommit EXCEPT !.pc = pc, !.kind = r.kind, !.status = status,
                       !.user = r.user]

\* the profile check and the merge it leads to (commit_service.py lines
\* 116-132, main.py lines 1054-1081): the locals after it
Merged(r, profile_check, emb) ==
    LET new_skills_to_add == GetList(profile_check.new_skills_to_add, <<>>)
        updated_skills == MergeSkills(r.current_skills, new_skills_to_add)
    IN [r EXCEPT !.new_skills_to_add = new_skills_to_add,
                 !.updated_skills = updated_skills,
                 !.new_embedding = generate_embedding(updated_skills, emb),
                 !.updated_profile_text =
                     Get(profile_check.updated_profile_text, Null)]

\* process_commit lines 46-86: the commit is analysed, the author is read
CommitSvcFindUser(p) ==
    /\ CommitAccepts(p)
    /\ commit_requests' = commit_requests + 1
    /\ \E author_email \in Authors, resp \in Response(CommitPayloads) :
         LET analysis == extract_skills_from_commit_diff(resp)
             user == find_user_by_email(users, author_email)
         IN commit_run' = [commit_run EXCEPT ![p] = [IdleCommit EXCEPT
                !.pc = "csvc_insert", !.kind = "svc",
                !.skills_used = GetList(analysis.skills_used, <<>>),
                !.user = user,
                !.current_skills =
                    IF user # NoId THEN users[user].skills ELSE <<>>]]
    /\ UNCHANGED <<store, run, requests, operator, call, commits>>

\* process_commit lines 88-132: the commit document is inserted, then the
\* profile check is made and the merged skills are embedded
CommitSvcInsert(p) ==
    /\ commit_run[p].pc = "csvc_insert"
    /\ LET r == [commit_run[p] EXCEPT !.commit_id = nextId]
       IN /\ commits' = Insert(commits, nextId,
                   [ user_id |-> IF r.user = NoId THEN Null ELSE StrOf(r.user),
                     triggered_profile_update |-> "false" ])
          /\ IF r.user = NoId
             THEN commit_run' = [commit_run EXCEPT ![p] =
                                    FinishedCommit(r, "done", "processed")]
             ELSE \E resp \in Response(ProfilePayloads), emb \in EmbResponses :
                    LET profile_check ==
                            check_profile_update_needed(r.current_skills,
                                                        r.skills_used, resp)
                    IN IF Truthy(profile_check.needs_update)
                       THEN commit_run' = [commit_run EXCEPT ![p] =
                               [Merged(r, profile_check, emb) EXCEPT
                                   !.pc = "csvc_update_user", !.skills_used = <<>>]]
                       ELSE commit_run' = [commit_run EXCEPT ![p] =
                               FinishedCommit(r, "done", "processed")]
    /\ nextId' = nextId + 1
    /\ UNCHANGED <<users, issues, tasks, job_requisitions, work_sessions,
                   run, requests, operator, call, commit_requests>>

\* variant: the merged skills are written, the embedding is left as it was
CommitSvcUpdateSkillsOnly(p) ==
    /\ commit_run[p].pc = "csvc_update_user"
    /\ LET r == commit_run[p]
       IN /\ users' = [users EXCEPT ![r.user] =
                          [@ EXCEPT !.skills = r.updated_skills]]
          /\ commit_run' = [commit_run EXCEPT ![p] = [r EXCEPT !.pc = "csvc_mark"]]
    /\ UNCHANGED <<issues, tasks, job_requisitions, work_sessions, nextId,
                   run, requests, operator, call, commits, commit_requests>>

\* process_commit lines 134-141: one update writes skills and embedding
CommitSvcUpdateUser(p) ==
    /\ commit_run[p].pc = "csvc_update_user"
    /\ LET r == commit_run[p]
       IN /\ users' = [users EXCEPT ![r.user] =
                          [@ EXCEPT !.skills = r.updated_skills,
                                    !.work_profile_embeddings = r.new_embedding]]
          /\ commit_run' = [commit_run EXCEPT ![p] = [r EXCEPT !.pc = "csvc_mark"]]
    /\ UNCHANGED <<issues, tasks, job_requisitions, work_sessions, nextId,
                   run, requests, operator, call, commits, commit_requests>>

\* process_commit lines 143-174: the commit is marked and the call returns
CommitSvcMark(p) ==
    /\ commit_run[p].pc = "csvc_mark"
    /\ commits' = [commits EXCEPT ![commit_run[p].commit_id] =
                      [@ EXCEPT !.triggered_profile_update = "true"]]
    /\ commit_run' = [commit_run EXCEPT ![p] =
                         FinishedCommit(commit_run[p], "done", "profile_updated")]
    /\ UNCHANGED <<store, run, requests, operator, call, commit_requests>>

\* process_commit_with_ai lines 976-1081: the body is checked, the commit is
\* analysed, the author is read, the profile check is made and the merged
\* skills are embedded.  A 400 and a KeyError on a decoded object are caught
\* by the handler's except clause and end the request with a 500.
CommitApiFindUser(p) ==
    /\ CommitAccepts(p)
    /\ commit_requests' = commit_requests + 1
    /\ \E author_email \in Authors \cup {""}, resp \in Response(CommitPayloads),
          presp \in Response(ProfilePayloads), emb \in EmbResponses :
         LET llm_extraction == extract_skills_from_commit_diff(resp)
             user == find_user_by_email(users, author_email)
             r == [IdleCommit EXCEPT !.kind = "api", !.user = user,
                      !.current_skills =
                          IF user # NoId THEN users[user].skills ELSE <<>>]
             profile_analysis ==
                 check_profile_update_needed(r.current_skills,
                                             llm_extraction.skills_used, presp)
         IN IF author_email = ""
            THEN commit_run' = [commit_run EXCEPT ![p] =
                    FinishedCommit(IdleCommit, "aborted", "invalid_request")]
            ELSE IF llm_extraction.summary = Missing
                    \/ llm_extraction.skills_used = MissingList
            THEN commit_run' = [commit_run EXCEPT ![p] =
                    FinishedCommit(IdleCommit, "aborted", "KeyError")]
            ELSE IF user = NoId
            THEN commit_run' = [commit_run EXCEPT ![p] = [r EXCEPT !.pc = "capi_insert"]]
            ELSE IF Missing \in {profile_analysis.needs_update,
                                 profile_analysis.reasoning}
            THEN commit_run' = [commit_run EXCEPT ![p] =
                    FinishedCommit(r, "aborted", "KeyError")]
            ELSE IF Truthy(profile_analysis.needs_update)
            THEN commit_run' = [commit_run EXCEPT ![p] =
                    [Merged(r, profile_analysis, emb) EXCEPT !.pc = "capi_update_user"]]
            ELSE commit_run' = [commit_run EXCEPT ![p] = [r EXCEPT !.pc = "capi_insert"]]
    /\ UNCHANGED <<store, run, requests, operator, call, commits>>

\* variant: the update replaces the user document by the fields it was
\* given instead of setting them
CommitApiReplaceUser(p) ==
    /\ commit_run[p].pc = "capi_update_user"
    /\ LET r == commit_run[p]
           updated == [users[r.user] EXCEPT
                          !.name = Missing, !.email = Missing,
                          !.hourly_rate = Missing,
                          !.skills = r.updated_skills,
                          !.work_profile_embeddings = r.new_embedding,
                          !.profile_text = IF Truthy(r.updated_profile_text)
                                           THEN r.updated_profile_text ELSE Missing]
       IN /\ users' = [users EXCEPT ![r.user] = updated]
          /\ commit_run' = [commit_run EXCEPT ![p] = [r EXCEPT
                 !.pc = "capi_insert", !.triggered_profile_update = "true"]]
    /\ UNCHANGED <<issues, tasks, job_requisitions, work_sessions, nextId,
                   run, requests, operator, call, commits, commit_requests>>

\* process_commit_with_ai lines 1083-1102: update_user_profile
\* (utils/vector_search.py lines 280-317) writes skills, embedding and, when
\* one was given, the profile text; it reports whether the document changed
CommitApiUpdateUser(p) ==
    /\ commit_run[p].pc = "capi_update_user"
    /\ LET r == commit_run[p]
           updated == [users[r.user] EXCEPT
                          !.skills = r.updated_skills,
                          !.work_profile_embeddings = r.new_embedding,
                          !.profile_text = IF Truthy(r.updated_profile_text)
                                           THEN r.updated_profile_text ELSE @]
       IN /\ users' = [users EXCEPT ![r.user] = updated]
          /\ commit_run' = [commit_run EXCEPT ![p] = [r EXCEPT
                 !.pc = "capi_insert",
                 !.triggered_profile_update =
                     IF updated # users[r.user] THEN "true" ELSE "false"]]
    /\ UNCHANGED <<issues, tasks, job_requisitions, work_sessions, nextId,
                   run, requests, operator, call, commits, commit_requests>>

\* process_commit_with_ai lines 1113-1137: the commit document is inserted
CommitApiInsert(p) ==
    /\ commit_run[p].pc = "capi_insert"
    /\ LET r == commit_run[p]
       IN /\ commits' = Insert(commits, nextId,
                   [ user_id |-> IF r.user = NoId THEN Null ELSE StrOf(r.user),
                     triggered_profile_update |-> r.triggered_profile_update ])
          /\ commit_run' = [commit_run EXCEPT ![p] =
                 FinishedCommit([r EXCEPT !.commit_id = nextId], "done",
                                IF r.triggered_profile_update = "true"
                                THEN "profile_updated" ELSE "processed")]
    /\ nextId' = nextId + 1
    /\ UNCHANGED <<users, issues, tasks, job_requisitions, work_sessions,
                   run, requests, operator, call, commit_requests>>

CommitPipeline(p) ==
        \/ CommitSvcFindUser(p)
        \/ CommitSvcInsert(p)
        \/ CommitSvcUpdateUser(p)
        \/ CommitSvcMark(p)
        \/ CommitApiFindUser(p)
        \/ CommitApiUpdateUser(p)
        \/ CommitApiInsert(p)

CommitNext == \E p \in RunIds : CommitPipeline(p)

\* the commit pipeline is checked over a store that holds no issues
CommitInit == Init /\ DOMAIN issues = {}

CommitSpec == CommitInit /\ [][CommitNext]_vars

(***************************************************************************)
(* The pipelines that read the users collection: a behaviour serves issue  *)
(* requests (one after the other) or commits (interleaved), over the same  *)
(* stored users.                                                           *)
(***************************************************************************)
PipelinesNext ==
        \/ commit_requests = 0 /\ \E p \in Serial : Pipeline(p)
        \/ requests = 0 /\ CommitNext

PipelinesSpec == CommitInit /\ [][PipelinesNext]_vars

(***************************************************************************)
(* The similar-issue search called on stores of up to MaxStored issues,    *)
(* with and without description embeddings, by the two callers of it.      *)
(***************************************************************************)
\* description embeddings of stored issues; <<>> is an issue without one
StoredEmbeddings == { NoVector, <<1, 0>>, <<3, 4>>, <<4, 3>> }

SearchInit ==
    /\ \E n \in 0..MaxStored : \E embs \in [1..n -> StoredEmbeddings] :
         issues = [i \in 1..n |->
                     [PriorIssue(i) EXCEPT !.description_embedding = embs[i]]]
    /\ users = <<>>
    /\ tasks = <<>>
    /\ job_requisitions = <<>>
    /\ work_sessions = <<>>
    /\ nextId = MaxStored + 1
    /\ run = [p \in RunIds |-> IdleRun]
    /\ requests = 0
    /\ operator_acted = {}
    /\ operator_actions = 0
    /\ call = NoCall
    /\ commits = <<>>
    /\ commit_run = [p \in RunIds |-> IdleCommit]
    /\ commit_requests = 0

\* search_similar_issues as IssueService.create_issue (top_k = 3) and
\* create_issue_with_ai (top_k = 5) call it, and the priors the duplicate
\* check then puts into the prompt
CallSearchPriors ==
    /\ \E query_embedding \in StoredEmbeddings \cup {ZeroVector}, top_k \in {3, 5} :
         call' = [ fn |-> "search_similar_issues",
                   args |-> [query_embedding |-> query_embedding, top_k |-> top_k],
                   oracle_calls |-> 0,
                   parsed |-> "none",
                   result |-> PromptPriors(search_similar_issues(
                                  issues, query_embedding, top_k, 70)) ]
    /\ UNCHANGED <<store, run, requests, operator, commit_state>>

SearchNext == CallSearchPriors

SearchSpec == SearchInit /\ [][SearchNext]_vars

(***************************************************************************)
(* The AI helpers called directly.  Each action is one call with inputs   *)
(* drawn from the stored documents and from small sets; call keeps the     *)
(* arguments, the number of oracle requests and the result.                *)
(***************************************************************************)
\* embeddings a caller may hand in as a query
QueryVectors == OracleVectors \cup {ZeroVector, <<3, 4>>}

\* check_issue_duplicate_with_llm on the priors a search returned
CallCheckDuplicate ==
    /\ \E query \in QueryVectors :
         LET similar_issues == search_similar_issues(issues, query, 3, 70)
         IN \E resp \in Response(DuplicatePayloads(similar_issues)) :
              call' = [ fn |-> "check_issue_duplicate_with_llm",
                        args |-> [similar_issues |-> similar_issues],
                        oracle_calls |-> DuplicateOracleCalls(similar_issues),
                        parsed |-> LenientParse(resp).tag,
                        result |-> check_issue_duplicate_with_llm(similar_issues, resp) ]
    /\ UNCHANGED <<store, run, requests, operator, commit_state>>

\* skill lists a caller may hand in: a stored profile's, a commit's
ProfileSkillLists == { <<>>, <<"Python">>, <<"Python", "Rust">> }
CommitSkillLists ==
    { <<>>, <<"Python">>, <<"Python", "Redis">>, <<"Redis", "Redis">>,
      <<"Software Development">> }

\* check_profile_update_needed
CallProfileUpdate ==
    /\ \E current_skills \in ProfileSkillLists,
          new_commit_skills \in CommitSkillLists,
          resp \in Response(ProfilePayloads) :
         call' = [ fn |-> "check_profile_update_needed",
                   args |-> [current_skills |-> current_skills,
                             new_commit_skills |-> new_commit_skills],
                   oracle_calls |-> 1,
                   parsed |-> LenientParse(resp).tag,
                   result |-> check_profile_update_needed(current_skills,
                                                          new_commit_skills, resp) ]
    /\ UNCHANGED <<store, run, requests, operator, commit_state>>

\* required-skill lists and description embeddings a caller may hand in
TaskSkillLists == { <<>>, <<"Python">> }
TaskEmbeddings == { ZeroVector, <<3, 4>> }

\* find_best_matching_users on the stored users.  The oracle's responses to
\* the embedding requests are no argument of the call.
CallRank ==
    /\ \E task_skills \in TaskSkillLists, task_embeddings \in TaskEmbeddings,
          top_n \in 1..MaxUsers,
          embs \in [1..(Cardinality(DOMAIN users) + 1) -> EmbResponses] :
         call' = [ fn |-> "find_best_matching_users",
                   args |-> [task_skills |-> task_skills,
                             task_embeddings |-> task_embeddings,
                             available_users |-> SetToSeq(DOMAIN users),
                             top_n |-> top_n],
                   oracle_calls |->
                       IF DOMAIN users = {} THEN 0
                       ELSE Cardinality({u \in DOMAIN users : users[u].skills # <<>>})
                            + (IF task_skills = <<>> THEN 0 ELSE 1),
                   parsed |-> "none",
                   result |-> find_best_matching_users(task_skills, task_embeddings,
                                                       users, top_n, embs) ]
    /\ UNCHANGED <<store, run, requests, operator, commit_state>>

\* vectors a caller may hand to the similarity: empty, zero, of one, two and
\* three components
CosineVectors ==
    { <<>>, <<0>>, <<2>>, <<0, 0>>, <<1, 0>>, <<0, 1>>, <<3, 4>>, <<-3, 4>>,
      <<0, 0, 0>>, <<1, 0, 0>>, <<0, 1, 0>>, <<2, 2, 1>> }

\* calculate_cosine_similarity / cosine_similarity
CallCosine ==
    /\ \E vec1 \in CosineVectors, vec2 \in CosineVectors :
         call' = [ fn |-> "calculate_cosine_similarity",
                   args |-> [vec1 |-> vec1, vec2 |-> vec2],
                   oracle_calls |-> 0,
                   parsed |-> "none",
                   result |-> calculate_cosine_similarity(vec1, vec2) ]
    /\ UNCHANGED <<store, run, requests, operator, commit_state>>

\* texts a caller may hand to the embedding: empty, whitespace only, of one
\* and of two words
EmbedTexts == { <<>>, <<" ">>, <<"Python">>, <<"Python", "Rust">> }

\* every way the embedding request may end: EmbResponses and content that
\* decodes to JSON which is not a list
EmbedResponses == EmbResponses \cup { [kind |-> "scalar", vec |-> NoVector] }

\* generate_embedding
CallEmbed ==
    /\ \E text \in EmbedTexts, resp \in EmbedResponses :
         call' = [ fn |-> "generate_embedding",
                   args |-> [text |-> text],
                   oracle_calls |-> IF Blank(text) THEN 0 ELSE 1,
                   parsed |-> IF Blank(text) THEN "none" ELSE resp.kind,
                   result |-> generate_embedding(text, resp) ]
    /\ UNCHANGED <<store, run, requests, operator, commit_state>>

HelperNext ==
        \/ CallEmbed
        \/ CallCheckDuplicate
        \/ CallProfileUpdate
        \/ CallRank
        \/ CallCosine

HelperSpec == Init /\ [][HelperNext]_vars

(***************************************************************************)
(* Properties                                                              *)
(***************************************************************************)
\* the run has returned or raised
Ended(p) == run[p].pc \in {"done", "aborted"}

\* results by which a run reports an assignment, an escalation, a merge
AssignedResults == {"assigned", "created_and_assigned"}
RejectResults == {"no_users_available", "no_match", "no_qualified_match"}
EscalatedResults == RejectResults \cup {"created_requires_posting"}
DuplicateResults == {"duplicate_detected", "updated_existing"}

\* the requisitions opened for a work item
RequisitionsFor(item) ==
    { id \in DOMAIN job_requisitions : job_requisitions[id].task_id = StrOf(item) }

\* the requisition is as the pipeline created it, or an operator changed it
PendingOrTouched(id) ==
    \/ job_requisitions[id].status = "pending"
    \/ \E request \in {"approve", "update", "post"} : <<id, request>> \in operator_acted

\* the run's work item was inserted and was not merged into a parent
OwnItem(p) == run[p].item # NoId /\ run[p].status \notin DuplicateResults

\* the run's work item is assigned / is escalated.  An issue carries
\* assignment_status; a Jira task is escalated by the requisition opened
\* for it.
ItemAssigned(p) ==
    IF run[p].kind = "jira"
    THEN tasks[run[p].item].current_assignee_ids # <<>>
    ELSE /\ issues[run[p].item].assignment_status = "assigned"
         /\ issues[run[p].item].assigned_user_id # Null
ItemEscalated(p) ==
    IF run[p].kind = "jira"
    THEN /\ tasks[run[p].item].current_assignee_ids = <<>>
         /\ RequisitionsFor(run[p].item) # {}
    ELSE /\ issues[run[p].item].assignment_status = "posting_required"
         /\ issues[run[p].item].assigned_user_id = Null

\* C1: in every entry point a step writes a work item as assigned to a
\* user only if, earlier in the same run, the validation call succeeded and
\* selected that user.
C1_AssignedOnlyAfterValidation ==
    [][\A p \in RunIds :
          (SvcAssign(p) \/ JiraAssign(p) \/ ApiAssign(p))
          => /\ run[p].validation = "selected"
             /\ run[p].validated = run[p].assignee]_vars

\* C2: when the validation call raises or returns no parseable JSON object,
\* evaluate_candidates_batch yields no selection and the run of
\* IssueService.create_issue ends escalated: posting_required, no assignee.
C2_FailedValidationEscalates ==
    \A p \in RunIds :
        (run[p].kind = "svc" /\ run[p].validation = "failed")
        => /\ run[p].validated = Null
           /\ run[p].pc # "svc_assign"
           /\ Ended(p) => ItemEscalated(p)

\* C3: a run that confirms a duplicate with a parent id inserts no document
\* into the issues collection.
C3_DuplicateInsertsNothing ==
    \A p \in RunIds :
        (Ended(p) /\ run[p].status \in DuplicateResults) => run[p].docs_inserted = 0

\* C4: when the ranked list is non-empty and the validation returns a null
\* selection, the run ends escalated: posting_required, no assignee, and a
\* requisition created pending exists for the item.
C4_NullSelectionEscalates ==
    \A p \in RunIds :
        (Ended(p) /\ run[p].kind = "svc" /\ run[p].validation = "null")
        => /\ ItemEscalated(p)
           /\ \E id \in RequisitionsFor(run[p].item) : PendingOrTouched(id)

\* C5: when the store holds no users, the run ends escalated and has made
\* no validation call.
C5_NoUsersEscalatesWithoutValidation ==
    \A p \in RunIds :
        (DOMAIN users = {} /\ OwnItem(p))
        => /\ run[p].validation_calls = 0
           /\ Ended(p) => ItemEscalated(p)

\* C6: every run that escalates its work item has inserted exactly one
\* requisition for that item, created pending.
C6_OneRequisitionPerEscalation ==
    \A p \in RunIds :
        (run[p].pc = "done" /\ run[p].status \in EscalatedResults)
        => /\ run[p].reqs_inserted = 1
           /\ Cardinality(RequisitionsFor(run[p].item)) = 1
           /\ \A id \in RequisitionsFor(run[p].item) : PendingOrTouched(id)

\* C7: a requisition is created only by a run whose decision is reject or
\* no-candidate; a run that ends assigned or merged inserts none; no work
\* item has both an assignee and a requisition.
C7_RequisitionOnlyOnReject ==
    /\ \A p \in RunIds :
          /\ run[p].reqs_inserted > 0 => run[p].status \in RejectResults
          /\ (Ended(p) /\ run[p].status \in AssignedResults \cup DuplicateResults)
                => run[p].reqs_inserted = 0
    /\ \A id \in DOMAIN job_requisitions :
          LET item == ObjectIdOf(job_requisitions[id].task_id)
          IN /\ item \in DOMAIN issues => issues[item].assigned_user_id = Null
             /\ item \in DOMAIN tasks => tasks[item].current_assignee_ids = <<>>

\* a run has rejected every candidate and opened the requisition
C7_Witness ==
    \E p \in RunIds :
        /\ run[p].pc = "done" /\ run[p].status = "no_qualified_match"
        /\ run[p].reqs_inserted = 1
        /\ RequisitionsFor(run[p].item) # {}

C9_EndsAssignedOrEscalated ==
    \A p \in RunIds :
        (Ended(p) /\ OwnItem(p))
        => /\ ItemAssigned(p) \/ ItemEscalated(p)
           /\ ~(ItemAssigned(p) /\ ItemEscalated(p))

\* C10: an oracle failure (exception, timeout, malformed text) in a stage
\* is absorbed by the stage's fallback: no run is aborted by an unhandled
\* error.  The aborts left aside are the rejected request body and the
\* decoded object that lacks a key, which is not an oracle failure.
C10_OracleFailureAbsorbed ==
    \A p \in RunIds :
        run[p].pc = "aborted" => run[p].status \in {"invalid_request", "KeyError"}

\* C11: a decoded oracle object that lacks expected keys is replaced by the
\* component's fallback and the run goes on: no run is ended by the lookup
\* of a key the decoded object does not hold.
C11_MalformedObjectAbsorbed ==
    \A p \in RunIds : ~(run[p].pc = "aborted" /\ run[p].status = "KeyError")

\* C12: the step that ends a run on a confirmed duplicate with a parent id
\* appends exactly one entry to the parent's activity log and leaves the
\* earlier entries as they were; it overwrites the parent's priority only
\* when a priority change was reported and its required_skills and
\* skill_embeddings only when new skills were reported.
C12_ParentMergeFrame ==
    [][\A p \in RunIds :
          ( \/ ApiMergeParent(p)
            \/ SvcInsert(p) /\ Truthy(run[p].is_duplicate)
                            /\ Truthy(run[p].parent_task_id) )
          => LET parent == ObjectIdOf(run[p].parent_task_id)
                 before == issues[parent]
                 after == issues'[parent]
             IN /\ Len(after.activity_log) = Len(before.activity_log) + 1
                /\ SubSeq(after.activity_log, 1, Len(before.activity_log))
                      = before.activity_log
                /\ after.priority # before.priority
                      => run[p].update_priority # Missing
                /\ (\/ after.required_skills # before.required_skills
                    \/ after.skill_embeddings # before.skill_embeddings)
                      => run[p].new_skills # <<>>]_vars

\* C13: check_issue_duplicate_with_llm called with an empty list of priors
\* returns is_duplicate false with confidence 1.0 and no parent, and sends
\* no request to the oracle.
C13_EmptyPriorsNotDuplicate ==
    (call.fn = "check_issue_duplicate_with_llm" /\ call.args.similar_issues = <<>>)
    => /\ call.result.is_duplicate = "false"
       /\ call.result.confidence = "1.0"
       /\ call.result.parent_task_id = Null
       /\ call.oracle_calls = 0

\* the helper was called with no priors while the store holds issues
C13_Witness ==
    /\ call.fn = "check_issue_duplicate_with_llm"
    /\ call.args.similar_issues = <<>>
    /\ call.result = NoSimilarResult
    /\ DOMAIN issues # {}

\* C14: when the list of priors is not empty and the duplicate-check call
\* raises or its output does not parse, the result is the fallback (not a
\* duplicate, confidence 0.5, no parent): the run goes on to insert the
\* issue as a new work item, never merges, and no step of it changes
\* another issue.
C14_DuplicateFallbackIsNewIssue ==
    /\ [](\A p \in RunIds :
            run[p].duplicate_check.path = "fallback"
            => /\ run[p].duplicate_check.confidence = "0.5"
               /\ ~Truthy(run[p].is_duplicate) /\ run[p].parent_task_id = Null
               /\ run[p].pc # "api_merge"
               /\ run[p].status \notin DuplicateResults
               /\ Ended(p) => run[p].docs_inserted = 1)
    /\ [][\A p \in RunIds :
            run[p].duplicate_check.path = "fallback"
            => \A i \in DOMAIN issues : i # run[p].item => issues'[i] = issues[i]]_vars

\* a run whose duplicate check fell back has ended with its own new issue
\* while the similar prior issue is as it was
C14_Witness ==
    \E p \in RunIds :
        /\ run[p].duplicate_check.path = "fallback"
        /\ run[p].pc = "done" /\ OwnItem(p)
        /\ run[p].status \in AssignedResults \cup EscalatedResults
        /\ \E i \in DOMAIN issues : i # run[p].item /\ issues[i] = PriorIssue(i)

\* C16: when the profile-update call to the oracle fails (it raises, or its
\* text holds no JSON object that decodes), the result lists as
\* new_skills_to_add the commit's skills that the profile does not hold (as
\* a set: the commit's skills minus the current skills), needs_update is
\* true exactly when there is such a skill, and no profile text is given.
C16_ProfileFallbackIsSetDifference ==
    (call.fn = "check_profile_update_needed" /\ call.parsed # "ok")
    => LET added == Range(call.result.new_skills_to_add)
           difference == Range(call.args.new_commit_skills)
                            \ Range(call.args.current_skills)
       IN /\ added = difference
          /\ call.result.needs_update = "true" <=> difference # {}
          /\ call.result.needs_update \in {"true", "false"}
          /\ call.result.updated_profile_text = Null

\* the oracle raised for a profile holding Python and a commit showing
\* Python and Redis: Redis is to be added
C16_Witness ==
    /\ call.fn = "check_profile_update_needed"
    /\ call.parsed = "error"
    /\ call.args.current_skills = <<"Python">>
    /\ call.args.new_commit_skills = <<"Python", "Redis">>
    /\ call.result.needs_update = "true"
    /\ call.result.new_skills_to_add = <<"Redis">>

\* C15: whenever a step of a commit run changes a contributor's stored
\* skills, the same step stores the embedding the run computed from the
\* merged list it writes, and that list holds, once each, the skills the
\* run read from the contributor and the skills reported as new; no step
\* writes skills without the embedding.
C15_MergedSkillsEmbedded ==
    /\ [](\A p \in RunIds :
            commit_run[p].pc \in {"csvc_update_user", "capi_update_user"}
            => LET r == commit_run[p]
               IN /\ Cardinality(Range(r.updated_skills)) = Len(r.updated_skills)
                  /\ Range(r.updated_skills)
                        = Range(r.current_skills) \cup Range(r.new_skills_to_add)
                  /\ \E emb \in EmbResponses :
                        r.new_embedding = generate_embedding(r.updated_skills, emb))
    /\ [][\A u \in DOMAIN users :
            users'[u].skills # users[u].skills
            => \E p \in RunIds :
                  /\ commit_run[p].pc \in {"csvc_update_user", "capi_update_user"}
                  /\ commit_run'[p].pc # commit_run[p].pc
                  /\ commit_run[p].user = u
                  /\ users'[u].skills = commit_run[p].updated_skills
                  /\ users'[u].work_profile_embeddings = commit_run[p].new_embedding]_vars

\* a commit run has added Redis to the first developer's skills and the
\* stored embedding is no longer the one the profile started with
C15_Witness ==
    /\ 1 \in DOMAIN users
    /\ "Redis" \in Range(users[1].skills)
    /\ "Python" \in Range(users[1].skills)
    /\ users[1].work_profile_embeddings # UserProfile(1).work_profile_embeddings
    /\ \E p \in RunIds : commit_run[p].pc = "done"
                         /\ commit_run[p].status = "profile_updated"

\* C17: within a run for a work item that is not identified as a duplicate
\* the issue's assignment_status changes exactly once: every change of it is
\* from pending to assigned or posting_required (so no second change can
\* follow), and no such run ends with the status still pending.
C17_StatusChangesExactlyOnce ==
    /\ [][\A i \in DOMAIN issues :
            issues'[i].assignment_status # issues[i].assignment_status
            => /\ issues[i].assignment_status = "pending"
               /\ issues'[i].assignment_status \in {"assigned", "posting_required"}]_vars
    /\ [](\A p \in RunIds :
            (Ended(p) /\ OwnItem(p) /\ run[p].kind \in {"svc", "api"})
            => issues[run[p].item].assignment_status # "pending")

\* the position of a user in the candidate list handed to a call
PositionIn(available_users, id) ==
    CHOOSE k \in 1..Len(available_users) : available_users[k] = id

\* the ranking a call returned is in descending order of the combined
\* score, equal scores in input order, and holds at most top_n candidates
RankedDescending ==
    call.fn = "find_best_matching_users"
    => LET ranked == call.result
           input == call.args.available_users
       IN /\ Len(ranked) <= call.args.top_n
          /\ Len(ranked) <= Len(input)
          /\ Len(ranked) = call.args.top_n \/ Len(ranked) = Len(input)
          /\ \A k \in 1..Len(ranked) : \E m \in 1..Len(input) : input[m] = ranked[k].id
          /\ \A k \in 1..Len(ranked), m \in 1..Len(ranked) :
                k < m => \/ ranked[k].score > ranked[m].score
                         \/ /\ ranked[k].score = ranked[m].score
                            /\ PositionIn(input, ranked[k].id)
                                 < PositionIn(input, ranked[m].id)

\* C18: the ranking is sorted by combined score in descending order, ties
\* in input order, truncated to top_n, and two calls with the same candidate
\* list and the same arguments return the same order.
C18_RankingSortedAndDeterministic ==
    /\ []RankedDescending
    /\ [][(/\ call.fn = "find_best_matching_users"
           /\ call'.fn = "find_best_matching_users"
           /\ call'.args = call.args)
          => Ids(call'.result) = Ids(call.result)]_vars

\* the vector is empty or every component of it is zero
EmptyOrZero(vec) == \A k \in 1..Len(vec) : vec[k] = 0

\* C19: the similarity of two vectors is 0.0 whenever either vector is
\* empty or has zero norm; no call raises, whatever the two lengths; for
\* vectors of different lengths the call returns a finite number (the value
\* is scaled by 100).
C19_CosineTotal ==
    call.fn = "calculate_cosine_similarity"
    => /\ ~call.result.raised
       /\ (EmptyOrZero(call.args.vec1) \/ EmptyOrZero(call.args.vec2))
             => call.result.value = 0
       /\ Len(call.args.vec1) # Len(call.args.vec2)
             => call.result.value \in -100..100

\* the similarity of two non-zero vectors of different lengths was asked
\* for and the call returned
C19_Witness ==
    /\ call.fn = "calculate_cosine_similarity"
    /\ Len(call.args.vec1) > Len(call.args.vec2)
    /\ ~EmptyOrZero(call.args.vec1) /\ ~EmptyOrZero(call.args.vec2)
    /\ call.result = Returned(0)

\* the vector right-padded with zeros to n components
RECURSIVE PadRight(_, _)
PadRight(vec, n) == IF Len(vec) >= n THEN vec ELSE PadRight(Append(vec, 0), n)

\* C20: for two vectors of different lengths the similarity is that of the
\* longer vector and the shorter one right-padded with zeros to the same
\* length.
C20_ShorterVectorPadded ==
    (call.fn = "calculate_cosine_similarity"
       /\ Len(call.args.vec1) # Len(call.args.vec2))
    => LET n == IF Len(call.args.vec1) > Len(call.args.vec2)
                THEN Len(call.args.vec1) ELSE Len(call.args.vec2)
       IN call.result = calculate_cosine_similarity(PadRight(call.args.vec1, n),
                                                    PadRight(call.args.vec2, n))

\* C21: two calls of generate_embedding with the same text return the same
\* vector, whatever the external service answers, and an empty or
\* whitespace-only text returns the all-zero vector of nominal length.
C21_EmbedDeterministic ==
    /\ []((call.fn = "generate_embedding" /\ Blank(call.args.text))
            => call.result = ZeroVector)
    /\ [][(/\ call.fn = "generate_embedding"
           /\ call'.fn = "generate_embedding"
           /\ call'.args = call.args)
          => call'.result = call.result]_vars

\* the run's search found no similar issue and the run is past its insert
FoundNothing(p) ==
    /\ run[p].kind = "svc"
    /\ run[p].duplicate_check.path = "skipped"
    /\ run[p].pc # "svc_insert"

\* C22: a run whose similar-issue search found nothing concludes 'not a
\* duplicate' and creates a new work item of its own, whatever another run
\* has inserted since that search; two interleaved runs for equivalent
\* issues therefore both create one (the state is C22_Witness).
C22_InterleavedRunsBothCreate ==
    \A p \in RunIds :
        FoundNothing(p)
        => /\ run[p].item \in DOMAIN issues
           /\ run[p].docs_inserted = 1
           /\ run[p].status \notin DuplicateResults
           /\ \A q \in RunIds : (q # p /\ FoundNothing(q)) => run[q].item # run[p].item

\* two runs have ended, neither found a similar issue, and the store holds
\* the two work items they created, whose description embeddings are within
\* the duplicate threshold of each other
C22_Witness ==
    /\ FoundNothing(1) /\ FoundNothing(2)
    /\ Ended(1) /\ Ended(2)
    /\ OwnItem(1) /\ OwnItem(2)
    /\ run[1].item # run[2].item
    /\ cosine_similarity(issues[run[1].item].description_embedding,
                         issues[run[2].item].description_embedding) >= 70

\* C23: a store failure during a read or write of a run aborts the run and
\* is reported to the caller: a run in which a store operation has raised
\* is ended with the error, it is never going on or ended with a normal
\* result.
C23_StoreFailureAborts ==
    \A p \in RunIds :
        run[p].store_failed
        => /\ run[p].pc = "aborted"
           /\ run[p].status = "StoreUnavailable"

\* the step is the write of a commit run whose author is user u
AuthorUpdate(u) ==
    \E p \in RunIds :
        /\ commit_run[p].user = u
        /\ CommitSvcUpdateUser(p) \/ CommitApiUpdateUser(p)

\* C24: no step of an issue pipeline changes a user document; a step of
\* the commit pipeline changes at most skills, work_profile_embeddings and
\* profile_text of the commit's author; name, email and hourly rate of every
\* user, the set of user ids and every other user's document never change.
C24_UserFrame ==
    [][/\ DOMAIN users' = DOMAIN users
       /\ \A u \in DOMAIN users :
            /\ users'[u].name = users[u].name
            /\ users'[u].email = users[u].email
            /\ users'[u].hourly_rate = users[u].hourly_rate
            /\ users'[u] # users[u]
                  => /\ AuthorUpdate(u)
                     /\ users'[u] =
                          [users[u] EXCEPT
                              !.skills = users'[u].skills,
                              !.work_profile_embeddings =
                                  users'[u].work_profile_embeddings,
                              !.profile_text = users'[u].profile_text]]_vars

\* a commit run has written new skills and a new profile text to its
\* author's document while a second user is stored
C24_Witness ==
    /\ DOMAIN users = {1, 2}
    /\ users[1].skills # UserProfile(1).skills
    /\ users[1].profile_text # UserProfile(1).profile_text
    /\ users[1].email = EmailOf(1)
    /\ users[2] = UserProfile(2)
    /\ \E p \in RunIds : commit_run[p].pc = "done" /\ commit_run[p].user = 1

\* the similarity of a stored issue to the query of the last search
SimilarityTo(i) ==
    cosine_similarity(call.args.query_embedding, issues[i].description_embedding)

\* the stored issue has an embedding and is within the threshold
Qualifies(i) == issues[i].description_embedding # <<>> /\ SimilarityTo(i) >= 70

\* C25: the priors handed to the duplicate-check oracle are at most 3
\* stored issues, each with an embedding and a similarity of at least 0.7
\* to the new issue, in descending order of similarity, and no stored issue
\* left out is more similar than one handed over.
C25_PriorsTopThree ==
    call.fn = "search_similar_issues"
    => LET priors == call.result
       IN /\ Len(priors) <= 3
          /\ \A k \in 1..Len(priors) :
                priors[k] \in DOMAIN issues /\ Qualifies(priors[k])
          /\ \A k \in 1..Len(priors), m \in 1..Len(priors) :
                k < m => /\ priors[k] # priors[m]
                         /\ SimilarityTo(priors[k]) >= SimilarityTo(priors[m])
          /\ \A i \in DOMAIN issues :
                (Qualifies(i) /\ i \notin Range(priors))
                => /\ Len(priors) = 3
                   /\ \A k \in 1..Len(priors) :
                         SimilarityTo(priors[k]) >= SimilarityTo(i)

\* a search over a store that holds an issue without embedding and four
\* issues within the threshold, not all equally similar, handed over three
C25_Witness ==
    /\ call.fn = "search_similar_issues"
    /\ call.args.top_k = 5
    /\ Len(call.result) = 3
    /\ \E i \in DOMAIN issues : issues[i].description_embedding = <<>>
    /\ Cardinality({i \in DOMAIN issues : Qualifies(i)}) = 4
    /\ SimilarityTo(call.result[1]) > SimilarityTo(call.result[3])

\* where a run reads and ranks the users, and where it waits for the
\* validation of the ranked list
RankingPcs == {"svc_users", "jira_users"}
ValidationPcs == {"svc_evaluate", "jira_evaluate"}

SelectedOutsider(p) ==
    /\ run[p].kind \in {"svc", "jira"}
    /\ ~Ended(p)
    /\ run[p].validation = "selected"
    /\ run[p].validated # Null
    /\ \A k \in 1..Len(run[p].sent) : StrOf(run[p].sent[k]) # run[p].validated

\* C27: the user a run assigns is a member of the candidate list the same
\* run sent to the oracle; a run whose validation selected an id outside
\* that list assigns nobody, and when it ends its work item is escalated.
C27_AssigneeIsCandidate ==
    /\ [][\A p \in RunIds :
            (SvcAssign(p) \/ JiraAssign(p))
            => \E k \in 1..Len(run[p].sent) : StrOf(run[p].sent[k]) = run[p].assignee]_vars
    /\ [](\A p \in RunIds :
            SelectedOutsider(p)
            => /\ run[p].assignee = Null
               /\ run[p].pc \notin {"svc_assign", "jira_assign", "jira_session"})
    /\ [][\A p \in RunIds :
            (SelectedOutsider(p) /\ Ended(p)')
            => (ItemEscalated(p) /\ ~ItemAssigned(p))']_vars

\* C28: in every store state reached through IssueService.create_issue runs,
\* however they interleave, an issue has an assignee exactly when its
\* assignment_status is assigned; a pending or posting_required issue has
\* none.
C28_AssigneeIffAssigned ==
    \A i \in DOMAIN issues :
        /\ issues[i].assignment_status \in {"pending", "assigned", "posting_required"}
        /\ issues[i].assigned_user_id # Null <=> issues[i].assignment_status = "assigned"

\* two runs have each written their own issue: one assigned to a user, the
\* other escalated
C28_Witness ==
    \E i, j \in DOMAIN issues :
        /\ issues[i].assignment_status = "assigned"
        /\ issues[i].assigned_user_id = StrOf(1)
        /\ issues[j].assignment_status = "posting_required"
        /\ issues[j].assigned_user_id = Null

\* C29: profile evolution never removes a skill: no step of a commit run,
\* whether or not another run for the same contributor read the profile
\* before it and writes after it, leaves a user with fewer skills than the
\* store held, so the skills stored before the runs and the skills each run
\* added are all stored when the runs have completed.
C29_SkillsNeverRemoved ==
    [][\A u \in DOMAIN users :
          Range(users[u].skills) \subseteq Range(users'[u].skills)]_vars

\* C30: the escalation step is total: whatever the oracle answers and
\* whatever list skill extraction returned, the empty list included, the
\* report step and the requisition step of a run return and the run goes
\* on; neither ends the run by raising.
C30_EscalationTotal ==
    [][\A p \in RunIds :
          (SvcReport(p) \/ SvcRequisition(p) \/ JiraReport(p) \/ JiraRequisition(p))
          => run'[p].pc # "aborted"]_vars

====
